---- MODULE Spec2Model ----
(***************************************************************************)
(* The tree-walking interpreter of src/src/interpreter.cpp as a state      *)
(* machine.  The C++ call stack is the sequence `stack` of activation      *)
(* frames (function, AST node, position inside the function, temporaries), *)
(* a C++ exception in flight is `signal` with mode = "throw", and every    *)
(* try/catch of the source is an unwinding action on the frame holding it. *)
(***************************************************************************)
EXTENDS Integers, Sequences, FiniteSets, TLC

VARIABLES
    statements,       \* the argument of the running interpret() call
    stack,            \* activation frames, innermost last
    mode,             \* "run": executing, "throw": an exception is unwinding
    ret,              \* value returned by the activation that finished last
    signal,           \* the exception in flight
    errors_,          \* Interpreter::errors_
    envs,             \* heap of Environment objects, indexed by identity
    functions,        \* heap of Function objects, indexed by identity
    environment_,     \* Interpreter::environment_
    loop_depth_,      \* Interpreter::loop_depth_
    function_depth_,  \* Interpreter::function_depth_
    out,              \* lines written to std::cout by builtins
    phase,            \* "idle", "running", "returned", "threw" (of interpret())
    calls,            \* number of interpret() calls made so far
    program,          \* index in Programs of the running call's argument
    raised,           \* history: runtime errors thrown during the current call
    lexer,            \* the Lexer object: its data members and the state of scan_tokens()
    parser            \* the Parser object: its data members and the state of parse()

vars == <<statements, stack, mode, ret, signal, errors_, envs, functions,
          environment_, loop_depth_, function_depth_, out, phase, calls,
          program, raised, lexer, parser>>

\* the variables the interpreter owns, and those of the lexer and the parser
interpreter_vars == <<statements, stack, mode, ret, signal, errors_, envs,
                      functions, environment_, loop_depth_, function_depth_,
                      out, phase, calls, program, raised>>
front_vars == <<lexer, parser>>

\* no object of the class has been constructed
NoObject == [phase |-> "none"]

----------------------------------------------------------------------------
(* Runtime values: std::variant<monostate, int, bool, Function, Builtin>.  *)

NilV == [kind |-> "nil", n |-> 0, b |-> FALSE, ref |-> 0]
IntV(i) == [kind |-> "number", n |-> i, b |-> FALSE, ref |-> 0]
BoolV(x) == [kind |-> "boolean", n |-> 0, b |-> x, ref |-> 0]
FnV(id) == [kind |-> "function", n |-> 0, b |-> FALSE, ref |-> id]
BuiltinV(id) == [kind |-> "builtin", n |-> 0, b |-> FALSE, ref |-> id]
\* the null result of Environment::get
nullptr == [kind |-> "nullptr", n |-> 0, b |-> FALSE, ref |-> 0]

value_type_name(value) == value.kind

value_to_string(value) ==
    CASE value.kind = "nil" -> "nil"
      [] value.kind = "number" -> ToString(value.n)
      [] value.kind = "boolean" -> (IF value.b THEN "true" ELSE "false")
      [] value.kind = "function" -> "function"
      [] OTHER -> "builtin"

\* faulty variant: functions and builtins are compared by kind only
values_equal_ByKind(left, right) ==
    /\ left.kind = right.kind
    /\ left.n = right.n
    /\ left.b = right.b

values_equal(left, right) ==
    IF left.kind # right.kind THEN FALSE
    ELSE CASE left.kind = "nil" -> TRUE
           [] left.kind = "number" -> left.n = right.n
           [] left.kind = "boolean" -> left.b = right.b
           [] OTHER -> left.ref = right.ref

\* C++ int division truncates toward zero
TruncDiv(a, b) ==
    LET q == (IF a < 0 THEN -a ELSE a) \div (IF b < 0 THEN -b ELSE b)
    IN  IF (a < 0) = (b < 0) THEN q ELSE -q

----------------------------------------------------------------------------
(* The AST of include/ast.hpp.  A null ExprPtr/StmtPtr is Null.            *)

Null == [type |-> "nullptr"]
Lit(i) == [type |-> "LiteralExpr", value |-> IntV(i)]
LitB(x) == [type |-> "LiteralExpr", value |-> BoolV(x)]
Id(name) == [type |-> "IdentifierExpr", name |-> name]
Grouping(e) == [type |-> "GroupingExpr", expression |-> e]
Unary(op, right) == [type |-> "UnaryExpr", op |-> op, right |-> right]
Binary(left, op, right) ==
    [type |-> "BinaryExpr", left |-> left, op |-> op, right |-> right]
Assign(name, value) == [type |-> "AssignExpr", name |-> name, value |-> value]
Call(callee, arguments) ==
    [type |-> "CallExpr", callee |-> callee, arguments |-> arguments]

ExprS(e) == [type |-> "ExprStmt", expression |-> e]
Let(name, initializer) ==
    [type |-> "LetStmt", name |-> name, initializer |-> initializer]
Block(stmts) == [type |-> "BlockStmt", statements |-> stmts]
If(condition, then_branch, else_branch) ==
    [type |-> "IfStmt", condition |-> condition, then_branch |-> then_branch,
     else_branch |-> else_branch]
While(condition, body) ==
    [type |-> "WhileStmt", condition |-> condition, body |-> body]
Break == [type |-> "BreakStmt"]
Continue == [type |-> "ContinueStmt"]
Return(value) == [type |-> "ReturnStmt", value |-> value]
Fn(name, params, body) ==
    [type |-> "FnStmt", name |-> name, params |-> params,
     body |-> [statements |-> body]]

CallPrint(arguments) == ExprS(Call(Id("print"), arguments))
CallFn(name, arguments) == Call(Id(name), arguments)

----------------------------------------------------------------------------
(* Environment (src/src/environment.cpp).  E is the heap of environments:  *)
(* E[e].values is the unordered_map of scope e, E[e].enclosing the         *)
(* identity of the enclosing scope, 0 for none.                            *)

globals_ == 1

NoValues == [name \in {} |-> NilV]

Environment(enclosing_env) == [values |-> NoValues, enclosing |-> enclosing_env]

RECURSIVE get(_, _, _)
get(E, e, name) ==
    IF name \in DOMAIN E[e].values THEN E[e].values[name]
    ELSE IF E[e].enclosing # 0 THEN get(E, E[e].enclosing, name)
    ELSE nullptr

\* faulty variant: a name bound anywhere on the chain counts as local
has_local_Chain(E, e, name) == get(E, e, name) # nullptr

has_local(E, e, name) == name \in DOMAIN E[e].values

\* values[name] = value
Put(values, name, value) ==
    [k \in DOMAIN values \cup {name} |-> IF k = name THEN value ELSE values[k]]

\* the bool Environment::define returns
define_result(E, e, name) == ~has_local(E, e, name)

\* faulty variant: define overwrites an existing binding
define_Overwrite(E, e, name, value) ==
    [E EXCEPT ![e].values = Put(@, name, value)]

\* the heap after Environment::define
define(E, e, name, value) ==
    IF has_local(E, e, name) THEN E
    ELSE [E EXCEPT ![e].values = Put(@, name, value)]

RECURSIVE assign_result(_, _, _)
\* the bool Environment::assign returns
assign_result(E, e, name) ==
    IF name \in DOMAIN E[e].values THEN TRUE
    ELSE IF E[e].enclosing # 0 THEN assign_result(E, E[e].enclosing, name)
    ELSE FALSE

\* faulty variant: assigning to a name the scope does not bind creates it
assign_Create(E, e, name, value) == [E EXCEPT ![e].values = Put(@, name, value)]

RECURSIVE assign(_, _, _, _)
\* the heap after Environment::assign
assign(E, e, name, value) ==
    IF name \in DOMAIN E[e].values
    THEN [E EXCEPT ![e].values = Put(@, name, value)]
    ELSE IF E[e].enclosing # 0 THEN assign(E, E[e].enclosing, name, value)
    ELSE E

----------------------------------------------------------------------------
(* Builtins (src/src/builtins.cpp): the registry holds the variadic print. *)

builtin_registry == <<[name |-> "print", variadic |-> TRUE, arity |-> 0]>>

RECURSIVE register_from(_, _)
register_from(E, i) ==
    IF i > Len(builtin_registry) THEN E
    ELSE register_from(define(E, globals_, builtin_registry[i].name, BuiltinV(i)),
                       i + 1)

register_builtins(E) == register_from(E, 1)

RECURSIVE JoinArgs(_, _)
\* the text print writes before the newline
JoinArgs(arguments, i) ==
    IF i > Len(arguments) THEN ""
    ELSE (IF i > 1 THEN " " ELSE "") \o value_to_string(arguments[i])
         \o JoinArgs(arguments, i + 1)

----------------------------------------------------------------------------
(* Exceptions: RuntimeError, BreakSignal, ContinueSignal, ReturnSignal.    *)
(* A span is named by the field of the node the source passes.             *)

NoSignal == [kind |-> "none", value |-> NilV, span |-> "", message |-> ""]
RuntimeError(error_span, message) ==
    [kind |-> "RuntimeError", value |-> NilV, span |-> error_span,
     message |-> message]
BreakSignal == [kind |-> "BreakSignal", value |-> NilV, span |-> "", message |-> ""]
ContinueSignal ==
    [kind |-> "ContinueSignal", value |-> NilV, span |-> "", message |-> ""]
ReturnSignal(value) ==
    [kind |-> "ReturnSignal", value |-> value, span |-> "", message |-> ""]

\* not an exception: an operator's normal result
Normal(value) == [kind |-> "value", value |-> value, span |-> "", message |-> ""]

format_error(span, message) == [span |-> span, message |-> message]

expect_error(expected, value, span, context) ==
    RuntimeError(span, "Expected " \o expected \o " in " \o context \o ", got "
                       \o value_type_name(value) \o ".")

----------------------------------------------------------------------------
(* Activations and the transfers of control between them.                  *)

Frame(f, node, env) ==
    [f |-> f, node |-> node, pc |-> 0, vals |-> <<>>, previous |-> 0, env |-> env]

Top == stack[Len(stack)]
Caller == SubSeq(stack, 1, Len(stack) - 1)

\* the activation on top is running function f on a node of the given type
Running(f, type) ==
    /\ phase = "running"
    /\ mode = "run"
    /\ Top.f = f
    /\ Top.node.type = type

\* an exception is unwinding through the activation on top
Unwinding(f) ==
    /\ phase = "running"
    /\ mode = "throw"
    /\ Top.f = f

\* the activation on top returns value to its caller
ReturnValue(value) ==
    /\ stack' = Caller
    /\ ret' = value
    /\ mode' = "run"
    /\ signal' = NoSignal
    /\ raised' = raised

\* the activation on top returns from a void function
Finish == ReturnValue(ret)

\* the activation on top keeps vals, calls callee and resumes at pc
InvokeWith(pc, vals, callee) ==
    /\ stack' = Append([stack EXCEPT ![Len(stack)].pc = pc,
                                     ![Len(stack)].vals = vals], callee)
    /\ mode' = "run"
    /\ signal' = NoSignal
    /\ UNCHANGED <<ret, raised>>

Invoke(pc, callee) == InvokeWith(pc, Top.vals, callee)

\* the activation on top throws; runtime_error() is the throw of a RuntimeError
Throw(exception) ==
    /\ stack' = stack
    /\ mode' = "throw"
    /\ signal' = exception
    /\ ret' = ret
    /\ raised' = IF exception.kind = "RuntimeError"
                 THEN Append(raised, format_error(exception.span, exception.message))
                 ELSE raised

\* the exception in flight leaves the activation on top
Rethrow ==
    /\ stack' = Caller
    /\ UNCHANGED <<mode, signal, ret, raised>>

call_vars == <<statements, phase, calls, program>>
data_vars == <<envs, functions, environment_, loop_depth_, function_depth_,
               out, errors_>>

----------------------------------------------------------------------------
(* The inputs: the statement lists handed to interpret().  Each is the     *)
(* tree Parser::parse builds for the source text quoted above it.          *)

MaxCalls == 2      \* interpret() calls made on the one Interpreter
NumProbes == 4     \* the first NumProbes programs may be a later call's input

Probes == <<
    \* break;
    <<Break>>,
    \* return;
    <<Return(Null)>>,
    \* print(x);
    <<CallPrint(<<Id("x")>>)>>,
    \* let x = 7;
    <<Let("x", Lit(7))>>,
    \* continue;
    <<Continue>> >>

FnBreak == Fn("f", <<>>, <<Break>>)

\* let x = 1; let x = 2; print(x);
RedeclareProgram ==
    <<Let("x", Lit(1)), Let("x", Lit(2)), CallPrint(<<Id("x")>>)>>

\* let x = 1; { let x = 2; print(x); } print(x);
ShadowProgram ==
    <<Let("x", Lit(1)),
      Block(<<Let("x", Lit(2)), CallPrint(<<Id("x")>>)>>),
      CallPrint(<<Id("x")>>)>>

\* while (true) { break; } print(1);
BreakLoopProgram == <<While(LitB(TRUE), Block(<<Break>>)), CallPrint(<<Lit(1)>>)>>

\* fn f() { break; } while (f()) { } print(1);
BreakInConditionProgram ==
    <<FnBreak, While(CallFn("f", <<>>), Block(<<>>)), CallPrint(<<Lit(1)>>)>>

\* fn f() { return 1 / 0; } f(); print(1);
ReturnErrorProgram ==
    <<Fn("f", <<>>, <<Return(Binary(Lit(1), "SLASH", Lit(0)))>>),
      ExprS(CallFn("f", <<>>)), CallPrint(<<Lit(1)>>)>>

\* { let a = 1; { a / 0; } } print(2);
NestedErrorProgram ==
    <<Block(<<Let("a", Lit(1)),
              Block(<<ExprS(Binary(Id("a"), "SLASH", Lit(0)))>>)>>),
      CallPrint(<<Lit(2)>>)>>

\* fn f() { } fn f() { } print(1);
RedeclareFnProgram ==
    <<Fn("f", <<>>, <<>>), Fn("f", <<>>, <<>>), CallPrint(<<Lit(1)>>)>>

Scenarios1 == <<
    RedeclareProgram,
    ShadowProgram,
    \* fn f(a) { return a + 1; } print(f(41));
    <<Fn("f", <<"a">>, <<Return(Binary(Id("a"), "PLUS", Lit(1)))>>),
      CallPrint(<<CallFn("f", <<Lit(41)>>)>>)>>,
    \* 1 + true; print(1);
    <<ExprS(Binary(Lit(1), "PLUS", LitB(TRUE))), CallPrint(<<Lit(1)>>)>>,
    \* print() + true;
    <<ExprS(Binary(CallFn("print", <<>>), "PLUS", LitB(TRUE)))>>,
    BreakLoopProgram,
    \* let x = 1; fn f() { return x; } x = 2; print(f());
    <<Let("x", Lit(1)), Fn("f", <<>>, <<Return(Id("x"))>>),
      ExprS(Assign("x", Lit(2))), CallPrint(<<CallFn("f", <<>>)>>)>>,
    BreakInConditionProgram,
    \* fn f() { break; } while (true) { f(); print(1); } print(2);
    <<FnBreak,
      While(LitB(TRUE), Block(<<ExprS(CallFn("f", <<>>)), CallPrint(<<Lit(1)>>)>>)),
      CallPrint(<<Lit(2)>>)>>,
    \* fn f() { break; } while (true) { while (f()) { } print(1); } print(2);
    <<FnBreak,
      While(LitB(TRUE), Block(<<While(CallFn("f", <<>>), Block(<<>>)),
                                CallPrint(<<Lit(1)>>)>>)),
      CallPrint(<<Lit(2)>>)>>,
    \* fn f(a) { while (true) { { if (a > 0) { return a; } return; } } }
    \* print(f(3), f(0));
    <<Fn("f", <<"a">>,
         <<While(LitB(TRUE),
                 Block(<<Block(<<If(Binary(Id("a"), "GREATER", Lit(0)),
                                    Block(<<Return(Id("a"))>>), Null),
                                 Return(Null)>>)>>))>>),
      CallPrint(<<CallFn("f", <<Lit(3)>>), CallFn("f", <<Lit(0)>>)>>)>>,
    \* fn f() { } print(f());
    <<Fn("f", <<>>, <<>>), CallPrint(<<CallFn("f", <<>>)>>)>>,
    ReturnErrorProgram,
    \* let i = 0; while (i < 2) { i = i + 1; if (i == 1) { continue; } print(i); }
    <<Let("i", Lit(0)),
      While(Binary(Id("i"), "LESS", Lit(2)),
            Block(<<ExprS(Assign("i", Binary(Id("i"), "PLUS", Lit(1)))),
                    If(Binary(Id("i"), "EQUAL_EQUAL", Lit(1)),
                       Block(<<Continue>>), Null),
                    CallPrint(<<Id("i")>>)>>))>>,
    NestedErrorProgram,
    RedeclareFnProgram,
    \* let print = 1;
    <<Let("print", Lit(1))>>,
    \* y = 1; print(1);
    <<ExprS(Assign("y", Lit(1))), CallPrint(<<Lit(1)>>)>> >>


Scenarios2 == <<
    \* if (1) { print(1); } print(2);
    <<If(Lit(1), Block(<<CallPrint(<<Lit(1)>>)>>), Null), CallPrint(<<Lit(2)>>)>>,
    \* if (false) print(1); else print(2); if (false) { print(3); }
    <<If(LitB(FALSE), CallPrint(<<Lit(1)>>), CallPrint(<<Lit(2)>>)),
      If(LitB(FALSE), Block(<<CallPrint(<<Lit(3)>>)>>), Null)>>,
    \* print(-1, !true); -true;
    <<CallPrint(<<Unary("MINUS", Lit(1)), Unary("BANG", LitB(TRUE))>>),
      ExprS(Unary("MINUS", LitB(TRUE)))>>,
    \* !1;
    <<ExprS(Unary("BANG", Lit(1)))>>,
    \* 1(); print(1);
    <<ExprS(Call(Lit(1), <<>>)), CallPrint(<<Lit(1)>>)>>,
    \* fn f(a) { } f();
    <<Fn("f", <<"a">>, <<>>), ExprS(CallFn("f", <<>>))>>,
    \* fn f(a, a) { } f(1, 2);
    <<Fn("f", <<"a", "a">>, <<>>), ExprS(CallFn("f", <<Lit(1), Lit(2)>>))>>,
    \* while (1) { print(1); }
    <<While(Lit(1), Block(<<CallPrint(<<Lit(1)>>)>>))>>,
    \* let i = 0; while (i < 2) { i = i + 1; while (true) { break; } print(i); }
    <<Let("i", Lit(0)),
      While(Binary(Id("i"), "LESS", Lit(2)),
            Block(<<ExprS(Assign("i", Binary(Id("i"), "PLUS", Lit(1)))),
                    While(LitB(TRUE), Block(<<Break>>)),
                    CallPrint(<<Id("i")>>)>>))>>,
    \* fn f() { while (true) { return 1; } } while (true) { print(f()); break; }
    <<Fn("f", <<>>, <<While(LitB(TRUE), Block(<<Return(Lit(1))>>))>>),
      While(LitB(TRUE), Block(<<CallPrint(<<CallFn("f", <<>>)>>), Break>>))>>,
    \* fn f() { let a = 1; { a(); } } while (true) { f(); }
    <<Fn("f", <<>>, <<Let("a", Lit(1)), Block(<<ExprS(CallFn("a", <<>>))>>)>>),
      While(LitB(TRUE), Block(<<ExprS(CallFn("f", <<>>))>>))>>,
    \* while (true) { return; }
    <<While(LitB(TRUE), Block(<<Return(Null)>>))>>,
    \* fn mk() { let c = 0; fn inc() { c = c + 1; return c; } return inc; }
    \* let a = mk(); let b = mk(); print(a(), a(), b()); print(a == b, a == a);
    <<Fn("mk", <<>>,
         <<Let("c", Lit(0)),
           Fn("inc", <<>>, <<ExprS(Assign("c", Binary(Id("c"), "PLUS", Lit(1)))),
                            Return(Id("c"))>>),
           Return(Id("inc"))>>),
      Let("a", CallFn("mk", <<>>)), Let("b", CallFn("mk", <<>>)),
      CallPrint(<<CallFn("a", <<>>), CallFn("a", <<>>), CallFn("b", <<>>)>>),
      CallPrint(<<Binary(Id("a"), "EQUAL_EQUAL", Id("b")),
                  Binary(Id("a"), "EQUAL_EQUAL", Id("a"))>>)>>,
    \* print((1 + 2) * 3 - 7 / 2, 1 <= 2, 3 >= 4, 1 != 1, print != 1);
    <<CallPrint(<<Binary(Binary(Grouping(Binary(Lit(1), "PLUS", Lit(2))),
                                "STAR", Lit(3)),
                         "MINUS", Binary(Lit(7), "SLASH", Lit(2))),
                  Binary(Lit(1), "LESS_EQUAL", Lit(2)),
                  Binary(Lit(3), "GREATER_EQUAL", Lit(4)),
                  Binary(Lit(1), "BANG_EQUAL", Lit(1)),
                  Binary(Id("print"), "BANG_EQUAL", Lit(1))>>)>>,
    \* let a = 0; let b = (a = 5); print(a, b); { let a = 1; a = 2; print(a); }
    \* print(a);
    <<Let("a", Lit(0)), Let("b", Grouping(Assign("a", Lit(5)))),
      CallPrint(<<Id("a"), Id("b")>>),
      Block(<<Let("a", Lit(1)), ExprS(Assign("a", Lit(2))),
              CallPrint(<<Id("a")>>)>>),
      CallPrint(<<Id("a")>>)>>,
    \* fn f(a) { let a = 1; } f(0);
    <<Fn("f", <<"a">>, <<Let("a", Lit(1))>>), ExprS(CallFn("f", <<Lit(0)>>))>>,
    \* fn g(a) { { let a = 1; print(a); } print(a); } g(0);
    <<Fn("g", <<"a">>,
         <<Block(<<Let("a", Lit(1)), CallPrint(<<Id("a")>>)>>),
           CallPrint(<<Id("a")>>)>>),
      ExprS(CallFn("g", <<Lit(0)>>))>>,
    \* let x = 1; { fn x() { } fn x() { } }
    <<Let("x", Lit(1)),
      Block(<<Fn("x", <<>>, <<>>), Fn("x", <<>>, <<>>)>>)>>,
    \* while (true) { fn g() { break; } fn f() { return g(); } print(f()); }
    <<While(LitB(TRUE),
            Block(<<Fn("g", <<>>, <<Break>>),
                    Fn("f", <<>>, <<Return(CallFn("g", <<>>))>>),
                    CallPrint(<<CallFn("f", <<>>)>>)>>))>> >>

\* print(<left> / <right>); for every pair of DivOperands
DivOperands == <<Lit(7), Lit(0), LitB(TRUE), CallFn("print", <<>>),
                 Unary("MINUS", Lit(2))>>

DivLeft(k) == DivOperands[((k - 1) \div Len(DivOperands)) + 1]
DivRight(k) == DivOperands[((k - 1) % Len(DivOperands)) + 1]

DivisionPrograms ==
    [k \in 1..(Len(DivOperands) * Len(DivOperands)) |->
        <<CallPrint(<<Binary(DivLeft(k), "SLASH", DivRight(k))>>)>>]

\* let x = 0; fn t() { x = 1; return true; } print(<left> <op> <right>); print(x);
\* for every operator of LogicalOps and operands of LogicalLefts, LogicalRights
LogicalOps == <<"AND_AND", "OR_OR">>
LogicalLefts == <<LitB(TRUE), LitB(FALSE), Lit(1)>>
LogicalRights == <<LitB(TRUE), LitB(FALSE), Lit(1), CallFn("t", <<>>),
                   Grouping(Binary(Binary(Lit(1), "SLASH", Lit(0)),
                                   "EQUAL_EQUAL", Lit(1)))>>

\* the positions of a program of the logical family in the operand lists
LogicalOpIndex(k) == ((k - 1) \div (Len(LogicalLefts) * Len(LogicalRights))) + 1
LogicalLeftIndex(k) == (((k - 1) \div Len(LogicalRights)) % Len(LogicalLefts)) + 1
LogicalRightIndex(k) == ((k - 1) % Len(LogicalRights)) + 1

LogicalOp(k) ==
    LogicalOps[((k - 1) \div (Len(LogicalLefts) * Len(LogicalRights))) + 1]
LogicalLeft(k) ==
    LogicalLefts[(((k - 1) \div Len(LogicalRights)) % Len(LogicalLefts)) + 1]
LogicalRight(k) == LogicalRights[((k - 1) % Len(LogicalRights)) + 1]

LogicalPrograms ==
    [k \in 1..(Len(LogicalOps) * Len(LogicalLefts) * Len(LogicalRights)) |->
        <<Let("x", Lit(0)),
          Fn("t", <<>>, <<ExprS(Assign("x", Lit(1))), Return(LitB(TRUE))>>),
          CallPrint(<<Binary(LogicalLeft(k), LogicalOp(k), LogicalRight(k))>>),
          CallPrint(<<Id("x")>>)>>]

\* let x = <a>; fn f() { return x; } fn g() { let x = <b>; return f(); }
\* x = <c>; print(g());   for a, b, c in ScopeValues
ScopeValues == <<1, 2>>
ScopeA(k) == ScopeValues[((k - 1) \div (Len(ScopeValues) * Len(ScopeValues))) + 1]
ScopeB(k) == ScopeValues[(((k - 1) \div Len(ScopeValues)) % Len(ScopeValues)) + 1]
ScopeC(k) == ScopeValues[((k - 1) % Len(ScopeValues)) + 1]

ScopePrograms ==
    [k \in 1..(Len(ScopeValues) * Len(ScopeValues) * Len(ScopeValues)) |->
        <<Let("x", Lit(ScopeA(k))),
          Fn("f", <<>>, <<Return(Id("x"))>>),
          Fn("g", <<>>, <<Let("x", Lit(ScopeB(k))), Return(CallFn("f", <<>>))>>),
          ExprS(Assign("x", Lit(ScopeC(k)))),
          CallPrint(<<CallFn("g", <<>>)>>)>>]

\* fn f(a) { <body> } print(f(<argument>));
\* for every body of ReturnBodies and argument of ReturnArguments
ReturnBodies == <<
    \* return a + 1;
    <<Return(Binary(Id("a"), "PLUS", Lit(1)))>>,
    \* while (true) { { if (a > 0) { return a; } return; } }
    <<While(LitB(TRUE),
            Block(<<Block(<<If(Binary(Id("a"), "GREATER", Lit(0)),
                               Block(<<Return(Id("a"))>>), Null),
                            Return(Null)>>)>>))>>,
    \* (empty body)
    <<>>,
    \* if (a > 0) return a;
    <<If(Binary(Id("a"), "GREATER", Lit(0)), Return(Id("a")), Null)>>,
    \* return a; return 0;
    <<Return(Id("a")), Return(Lit(0))>>,
    \* a = a + 1; { return; }
    <<ExprS(Assign("a", Binary(Id("a"), "PLUS", Lit(1)))), Block(<<Return(Null)>>)>> >>
ReturnArguments == <<0, 3, 41>>

ReturnBody(k) == ((k - 1) \div Len(ReturnArguments)) + 1
ReturnArgument(k) == ReturnArguments[((k - 1) % Len(ReturnArguments)) + 1]

ReturnPrograms ==
    [k \in 1..(Len(ReturnBodies) * Len(ReturnArguments)) |->
        <<Fn("f", <<"a">>, ReturnBodies[ReturnBody(k)]),
          CallPrint(<<CallFn("f", <<Lit(ReturnArgument(k))>>)>>)>>]

\* fn n() { } fn mk() { fn g() { } return g; } let a = mk(); let b = mk();
\* print(<left> <op> <right>);   for the operands 0, 1, true, false, n(),
\* print, a, b, mk() and the operators == and !=
EqualityOperands == <<
    Lit(0), Lit(1), LitB(TRUE), LitB(FALSE), CallFn("n", <<>>), Id("print"),
    Id("a"), Id("b"), CallFn("mk", <<>>) >>
EqualityOps == <<"EQUAL_EQUAL", "BANG_EQUAL">>

EqualityOp(k) ==
    EqualityOps[((k - 1) \div (Len(EqualityOperands) * Len(EqualityOperands))) + 1]
EqualityLeft(k) == (((k - 1) \div Len(EqualityOperands)) % Len(EqualityOperands)) + 1
EqualityRight(k) == ((k - 1) % Len(EqualityOperands)) + 1

EqualityPrograms ==
    [k \in 1..(Len(EqualityOps) * Len(EqualityOperands) * Len(EqualityOperands)) |->
        <<Fn("n", <<>>, <<>>),
          Fn("mk", <<>>, <<Fn("g", <<>>, <<>>), Return(Id("g"))>>),
          Let("a", CallFn("mk", <<>>)), Let("b", CallFn("mk", <<>>)),
          CallPrint(<<Binary(EqualityOperands[EqualityLeft(k)], EqualityOp(k),
                             EqualityOperands[EqualityRight(k)])>>)>>]

AssignPrograms == <<
    \* let x = 1; fn f(x) { { x = 2; } return x; } print(f(0), x);
    <<Let("x", Lit(1)),
      Fn("f", <<"x">>, <<Block(<<ExprS(Assign("x", Lit(2)))>>), Return(Id("x"))>>),
      CallPrint(<<CallFn("f", <<Lit(0)>>), Id("x")>>)>>,
    \* let x = 1; { let y = 0; { x = y = 3; } print(x, y); } print(x);
    <<Let("x", Lit(1)),
      Block(<<Let("y", Lit(0)),
              Block(<<ExprS(Assign("x", Assign("y", Lit(3))))>>),
              CallPrint(<<Id("x"), Id("y")>>)>>),
      CallPrint(<<Id("x")>>)>>,
    \* let x = 1; { z = 2; } print(x);
    <<Let("x", Lit(1)), Block(<<ExprS(Assign("z", Lit(2)))>>),
      CallPrint(<<Id("x")>>)>>,
    \* fn f() { let v = 1; } f(); v = 2; print(1);
    <<Fn("f", <<>>, <<Let("v", Lit(1))>>), ExprS(CallFn("f", <<>>)),
      ExprS(Assign("v", Lit(2))), CallPrint(<<Lit(1)>>)>> >>

\* for every operand c of ConditionOperands, n being `fn n() { }`:
\*   form 1: if (c) print(1); else print(2); print(3);
\*   form 2: if (c) print(1); print(3);
\*   form 3: while (c) { print(1); break; } print(3);
\*   form 4: let c = true; while (c) { print(1); c = <c>; } print(3);
\* (form 4 for every operand but the last, true)
ConditionOperands == <<
    LitB(FALSE), Lit(0), Lit(1), CallFn("n", <<>>), Id("n"), Id("print"),
    LitB(TRUE) >>

ConditionForm(k) ==
    IF k > 3 * Len(ConditionOperands) THEN 4
    ELSE ((k - 1) \div Len(ConditionOperands)) + 1
ConditionOperand(k) == ((k - 1) % Len(ConditionOperands)) + 1

ConditionStatements(form, c) ==
    CASE form = 1 -> <<If(c, CallPrint(<<Lit(1)>>), CallPrint(<<Lit(2)>>))>>
      [] form = 2 -> <<If(c, CallPrint(<<Lit(1)>>), Null)>>
      [] form = 3 -> <<While(c, Block(<<CallPrint(<<Lit(1)>>), Break>>))>>
      [] OTHER -> <<Let("c", LitB(TRUE)),
                    While(Id("c"), Block(<<CallPrint(<<Lit(1)>>),
                                           ExprS(Assign("c", c))>>))>>

ConditionPrograms ==
    [k \in 1..(4 * Len(ConditionOperands) - 1) |->
        <<Fn("n", <<>>, <<>>)>>
        \o ConditionStatements(ConditionForm(k),
                               ConditionOperands[ConditionOperand(k)])
        \o <<CallPrint(<<Lit(3)>>)>>]

\* fn t(k) { print(k); return k; } fn f(a, b) { print(a, b); return 0; }
\* fn g() { print(0); return f; } <call>; print(7);
\* for every call of CallOrderCalls
CallT(k) == CallFn("t", <<Lit(k)>>)
CallG == CallFn("g", <<>>)

CallOrderCalls == <<
    \* g()(t(1), t(2))
    Call(CallG, <<CallT(1), CallT(2)>>),
    \* g()(t(1))
    Call(CallG, <<CallT(1)>>),
    \* g()(t(1), t(2), t(3))
    Call(CallG, <<CallT(1), CallT(2), CallT(3)>>),
    \* print(t(1), t(2))
    Call(Id("print"), <<CallT(1), CallT(2)>>),
    \* t(0)(t(1))
    Call(CallT(0), <<CallT(1)>>),
    \* g()(t(1), t(2) / 0)
    Call(CallG, <<CallT(1), Binary(CallT(2), "SLASH", Lit(0))>>),
    \* u(t(1))
    Call(Id("u"), <<CallT(1)>>),
    \* f(t(1), g()(t(2), t(3)))
    Call(Id("f"), <<CallT(1), Call(CallG, <<CallT(2), CallT(3)>>)>>) >>

CallOrderPrograms ==
    [k \in 1..Len(CallOrderCalls) |->
        <<Fn("t", <<"k">>, <<CallPrint(<<Id("k")>>), Return(Id("k"))>>),
          Fn("f", <<"a", "b">>, <<CallPrint(<<Id("a"), Id("b")>>), Return(Lit(0))>>),
          Fn("g", <<>>, <<CallPrint(<<Lit(0)>>), Return(Id("f"))>>),
          ExprS(CallOrderCalls[k]),
          CallPrint(<<Lit(7)>>)>>]

\* loops whose body is a block that declares a variable
Increment(name) == ExprS(Assign(name, Binary(Id(name), "PLUS", Lit(1))))

\* fn inc() { x = x + 1; return x; }
FnInc ==
    Fn("inc", <<>>, <<Increment("x"), Return(Id("x"))>>)

BlockPrograms == <<
    \* let i = 0; while (i < 3) { let x = i; i = i + 1; print(x); }
    <<Let("i", Lit(0)),
      While(Binary(Id("i"), "LESS", Lit(3)),
            Block(<<Let("x", Id("i")), Increment("i"), CallPrint(<<Id("x")>>)>>))>>,
    \* let i = 0; while (i < 2) { i = i + 1; if (i == 2) print(x); let x = i; }
    <<Let("i", Lit(0)),
      While(Binary(Id("i"), "LESS", Lit(2)),
            Block(<<Increment("i"),
                    If(Binary(Id("i"), "EQUAL_EQUAL", Lit(2)),
                       CallPrint(<<Id("x")>>), Null),
                    Let("x", Id("i"))>>))>>,
    \* let f = 0; let g = 0; let i = 0;
    \* while (i < 2) { let x = 0; fn inc() { x = x + 1; return x; }
    \*                 if (i == 0) f = inc; else g = inc; i = i + 1; }
    \* print(f(), f(), g(), f == g);
    <<Let("f", Lit(0)), Let("g", Lit(0)), Let("i", Lit(0)),
      While(Binary(Id("i"), "LESS", Lit(2)),
            Block(<<Let("x", Lit(0)), FnInc,
                    If(Binary(Id("i"), "EQUAL_EQUAL", Lit(0)),
                       ExprS(Assign("f", Id("inc"))),
                       ExprS(Assign("g", Id("inc")))),
                    Increment("i")>>)),
      CallPrint(<<CallFn("f", <<>>), CallFn("f", <<>>), CallFn("g", <<>>),
                  Binary(Id("f"), "EQUAL_EQUAL", Id("g"))>>)>>,
    \* let i = 0; while (i < 2) { i = i + 1; let x = 5; x = x + i; print(x); }
    <<Let("i", Lit(0)),
      While(Binary(Id("i"), "LESS", Lit(2)),
            Block(<<Increment("i"), Let("x", Lit(5)),
                    ExprS(Assign("x", Binary(Id("x"), "PLUS", Id("i")))),
                    CallPrint(<<Id("x")>>)>>))>> >>

\* functions whose body declares the name of the parameter a, directly or
\* in a nested block
BodyScopePrograms == <<
    \* fn f(a) { let a = 1; print(a); } f(0); print(9);
    <<Fn("f", <<"a">>, <<Let("a", Lit(1)), CallPrint(<<Id("a")>>)>>),
      ExprS(CallFn("f", <<Lit(0)>>)), CallPrint(<<Lit(9)>>)>>,
    \* fn f(a) { fn a() { } print(a); } f(0); print(9);
    <<Fn("f", <<"a">>, <<Fn("a", <<>>, <<>>), CallPrint(<<Id("a")>>)>>),
      ExprS(CallFn("f", <<Lit(0)>>)), CallPrint(<<Lit(9)>>)>>,
    \* fn f(a) { { let a = 1; print(a); } print(a); } f(0); print(9);
    <<Fn("f", <<"a">>, <<Block(<<Let("a", Lit(1)), CallPrint(<<Id("a")>>)>>),
                         CallPrint(<<Id("a")>>)>>),
      ExprS(CallFn("f", <<Lit(0)>>)), CallPrint(<<Lit(9)>>)>>,
    \* fn f(a) { { fn a() { return 2; } print(a()); } print(a); } f(0); print(9);
    <<Fn("f", <<"a">>, <<Block(<<Fn("a", <<>>, <<Return(Lit(2))>>),
                                 CallPrint(<<CallFn("a", <<>>)>>)>>),
                         CallPrint(<<Id("a")>>)>>),
      ExprS(CallFn("f", <<Lit(0)>>)), CallPrint(<<Lit(9)>>)>>,
    \* fn f(a) { let b = 1; print(a + b); } f(1); f(2);
    <<Fn("f", <<"a">>, <<Let("b", Lit(1)),
                         CallPrint(<<Binary(Id("a"), "PLUS", Id("b"))>>)>>),
      ExprS(CallFn("f", <<Lit(1)>>)), ExprS(CallFn("f", <<Lit(2)>>))>> >>

Scenarios == Scenarios1 \o Scenarios2

Programs ==
    Probes \o Scenarios \o DivisionPrograms \o LogicalPrograms \o ScopePrograms
    \o ReturnPrograms \o EqualityPrograms \o AssignPrograms
    \o ConditionPrograms \o CallOrderPrograms \o BlockPrograms
    \o BodyScopePrograms

\* the indices in Programs of the generated families
DivisionBase == Len(Probes) + Len(Scenarios)
LogicalBase == DivisionBase + Len(DivisionPrograms)
ScopeBase == LogicalBase + Len(LogicalPrograms)
ReturnBase == ScopeBase + Len(ScopePrograms)
EqualityBase == ReturnBase + Len(ReturnPrograms)
AssignBase == EqualityBase + Len(EqualityPrograms)
ConditionBase == AssignBase + Len(AssignPrograms)
CallOrderBase == ConditionBase + Len(ConditionPrograms)
BlockBase == CallOrderBase + Len(CallOrderPrograms)
BodyScopeBase == BlockBase + Len(BlockPrograms)

----------------------------------------------------------------------------
(* Interpreter::Interpreter and Interpreter::interpret.                    *)

Init ==
    /\ statements = <<>>
    /\ stack = <<>>
    /\ mode = "run"
    /\ ret = NilV
    /\ signal = NoSignal
    /\ errors_ = <<>>
    /\ envs = register_builtins(<<Environment(0)>>)
    /\ functions = <<>>
    /\ environment_ = globals_
    /\ loop_depth_ = 0
    /\ function_depth_ = 0
    /\ out = <<>>
    /\ phase = "idle"
    /\ calls = 0
    /\ program = 0
    /\ raised = <<>>
    /\ lexer = NoObject
    /\ parser = NoObject

\* a caller invokes interpret(Programs[p]) on the interpreter
Interpret(p) ==
    /\ phase # "running"
    /\ calls < MaxCalls
    /\ calls > 0 => p <= NumProbes
    /\ statements' = Programs[p]
    /\ program' = p
    /\ calls' = calls + 1
    /\ phase' = "running"
    /\ errors_' = <<>>
    /\ raised' = <<>>
    /\ stack' = <<[Frame("interpret", [type |-> "statements"], 0) EXCEPT !.pc = 1]>>
    /\ mode' = "run"
    /\ signal' = NoSignal
    /\ UNCHANGED <<ret, envs, functions, environment_, loop_depth_,
                   function_depth_, out>>
    /\ UNCHANGED front_vars

\* for (stmt : statements) execute(*stmt);
InterpretLoop ==
    /\ Running("interpret", "statements")
    /\ Top.pc <= Len(statements)
    /\ Invoke(Top.pc + 1, Frame("execute", statements[Top.pc], 0))
    /\ UNCHANGED <<call_vars, data_vars>>
    /\ UNCHANGED front_vars

\* the loop is over: interpret() returns
InterpretReturn ==
    /\ Running("interpret", "statements")
    /\ Top.pc > Len(statements)
    /\ Finish
    /\ phase' = "returned"
    /\ UNCHANGED <<statements, calls, program, data_vars>>
    /\ UNCHANGED front_vars

\* faulty variant: the handler sits inside the loop, the next statement runs
InterpretCatch_Resume ==
    /\ Unwinding("interpret")
    /\ signal.kind = "RuntimeError"
    /\ errors_' = Append(errors_, format_error(signal.span, signal.message))
    /\ stack' = stack
    /\ mode' = "run"
    /\ signal' = NoSignal
    /\ UNCHANGED <<ret, raised, call_vars, envs, functions, environment_,
                   loop_depth_, function_depth_, out>>
    /\ UNCHANGED front_vars

\* catch (const RuntimeError &err) { errors_.push_back(...); }
InterpretCatch ==
    /\ Unwinding("interpret")
    /\ signal.kind = "RuntimeError"
    /\ errors_' = Append(errors_, format_error(signal.span, signal.message))
    /\ Finish
    /\ phase' = "returned"
    /\ UNCHANGED <<statements, calls, program, envs, functions, environment_,
                   loop_depth_, function_depth_, out>>
    /\ UNCHANGED front_vars

\* no handler of interpret() matches: the exception leaves interpret()
InterpretEscape ==
    /\ Unwinding("interpret")
    /\ signal.kind # "RuntimeError"
    /\ Rethrow
    /\ phase' = "threw"
    /\ UNCHANGED <<statements, calls, program, data_vars>>
    /\ UNCHANGED front_vars

----------------------------------------------------------------------------
(* Interpreter::execute, one action per statement kind.                    *)

Evaluate(expr) == Frame("evaluate", expr, 0)
Execute(stmt) == Frame("execute", stmt, 0)
ExecuteBlockFrame(stmts, env) ==
    Frame("execute_block", [type |-> "statements", statements |-> stmts], env)

ExecuteExprStmt ==
    /\ Running("execute", "ExprStmt")
    /\ IF Top.pc = 0 /\ Top.node.expression # Null
       THEN Invoke(1, Evaluate(Top.node.expression))
       ELSE Finish
    /\ UNCHANGED <<call_vars, data_vars>>
    /\ UNCHANGED front_vars

\* Value value = evaluate(*node.initializer);
ExecuteLetStmtInitializer ==
    /\ Running("execute", "LetStmt")
    /\ Top.pc = 0
    /\ Invoke(1, Evaluate(Top.node.initializer))
    /\ UNCHANGED <<call_vars, data_vars>>
    /\ UNCHANGED front_vars

\* if (!environment_->define(name, value)) runtime_error(...);
ExecuteLetStmtDefine ==
    /\ Running("execute", "LetStmt")
    /\ Top.pc = 1
    /\ envs' = define(envs, environment_, Top.node.name, ret)
    /\ IF define_result(envs, environment_, Top.node.name)
       THEN Finish
       ELSE Throw(RuntimeError("name.span",
                "Variable already declared in this scope: '" \o Top.node.name \o "'."))
    /\ UNCHANGED <<call_vars, functions, environment_, loop_depth_,
                   function_depth_, out, errors_>>
    /\ UNCHANGED front_vars

\* faulty variant: the block runs in the environment it is executed in
ExecuteBlockStmt_SameEnv ==
    /\ Running("execute", "BlockStmt")
    /\ Top.pc = 0
    /\ envs' = envs
    /\ Invoke(1, ExecuteBlockFrame(Top.node.statements, environment_))
    /\ UNCHANGED <<call_vars, functions, environment_, loop_depth_,
                   function_depth_, out, errors_>>
    /\ UNCHANGED front_vars

\* block_env = make_shared<Environment>(environment_); execute_block(...)
ExecuteBlockStmt ==
    /\ Running("execute", "BlockStmt")
    /\ Top.pc = 0
    /\ envs' = Append(envs, Environment(environment_))
    /\ Invoke(1, ExecuteBlockFrame(Top.node.statements, Len(envs) + 1))
    /\ UNCHANGED <<call_vars, functions, environment_, loop_depth_,
                   function_depth_, out, errors_>>
    /\ UNCHANGED front_vars

\* execute_block has returned normally
ExecuteBlockStmtReturn ==
    /\ Running("execute", "BlockStmt")
    /\ Top.pc = 1
    /\ Finish
    /\ UNCHANGED <<call_vars, data_vars>>
    /\ UNCHANGED front_vars

ExecuteIfStmtCondition ==
    /\ Running("execute", "IfStmt")
    /\ Top.pc = 0
    /\ Invoke(1, Evaluate(Top.node.condition))
    /\ UNCHANGED <<call_vars, data_vars>>
    /\ UNCHANGED front_vars

\* the branch the value of the condition selects, Null for none
IfBranch(node, condition) ==
    IF condition THEN node.then_branch ELSE node.else_branch

ExecuteIfStmtBranch ==
    /\ Running("execute", "IfStmt")
    /\ Top.pc = 1
    /\ IF ret.kind # "boolean"
       THEN Throw(expect_error("boolean", ret, "condition.span", "if condition"))
       ELSE IF IfBranch(Top.node, ret.b) # Null
            THEN Invoke(2, Execute(IfBranch(Top.node, ret.b)))
            ELSE Finish
    /\ UNCHANGED <<call_vars, data_vars>>
    /\ UNCHANGED front_vars

ExecuteIfStmtReturn ==
    /\ Running("execute", "IfStmt")
    /\ Top.pc = 2
    /\ Finish
    /\ UNCHANGED <<call_vars, data_vars>>
    /\ UNCHANGED front_vars

\* ++loop_depth_; then the first evaluation of the condition
ExecuteWhileStmtEnter ==
    /\ Running("execute", "WhileStmt")
    /\ Top.pc = 0
    /\ loop_depth_' = loop_depth_ + 1
    /\ Invoke(1, Evaluate(Top.node.condition))
    /\ UNCHANGED <<call_vars, envs, functions, environment_, function_depth_,
                   out, errors_>>
    /\ UNCHANGED front_vars

\* faulty variant: a condition that is not a boolean counts as true, except
\* nil and 0
ExecuteWhileStmtTest_Truthy ==
    /\ Running("execute", "WhileStmt")
    /\ Top.pc = 1
    /\ IF (ret.kind = "boolean" /\ ret.b)
          \/ (ret.kind = "number" /\ ret.n # 0)
          \/ ret.kind \in {"function", "builtin"}
       THEN /\ IF Top.node.body # Null
               THEN Invoke(2, Execute(Top.node.body))
               ELSE Invoke(1, Evaluate(Top.node.condition))
            /\ loop_depth_' = loop_depth_
       ELSE /\ loop_depth_' = loop_depth_ - 1
            /\ Finish
    /\ UNCHANGED <<call_vars, envs, functions, environment_, function_depth_,
                   out, errors_>>
    /\ UNCHANGED front_vars

\* while (expect_bool(<condition>, ...)) { try { execute(*node.body); } ... }
ExecuteWhileStmtTest ==
    /\ Running("execute", "WhileStmt")
    /\ Top.pc = 1
    /\ IF ret.kind # "boolean"
       THEN /\ Throw(expect_error("boolean", ret, "condition.span", "while condition"))
            /\ loop_depth_' = loop_depth_
       ELSE IF ret.b
            THEN /\ IF Top.node.body # Null
                    THEN Invoke(2, Execute(Top.node.body))
                    ELSE Invoke(1, Evaluate(Top.node.condition))
                 /\ loop_depth_' = loop_depth_
            ELSE /\ loop_depth_' = loop_depth_ - 1
                 /\ Finish
    /\ UNCHANGED <<call_vars, envs, functions, environment_, function_depth_,
                   out, errors_>>
    /\ UNCHANGED front_vars

\* the body has returned normally: next evaluation of the condition
ExecuteWhileStmtAgain ==
    /\ Running("execute", "WhileStmt")
    /\ Top.pc = 2
    /\ Invoke(1, Evaluate(Top.node.condition))
    /\ UNCHANGED <<call_vars, data_vars>>
    /\ UNCHANGED front_vars

\* catch (const ContinueSignal &) { continue; }
WhileCatchContinue ==
    /\ Unwinding("execute")
    /\ Top.node.type = "WhileStmt"
    /\ Top.pc = 2
    /\ signal.kind = "ContinueSignal"
    /\ Invoke(1, Evaluate(Top.node.condition))
    /\ UNCHANGED <<call_vars, data_vars>>
    /\ UNCHANGED front_vars

\* catch (const BreakSignal &) { break; } and then --loop_depth_; return;
WhileCatchBreak ==
    /\ Unwinding("execute")
    /\ Top.node.type = "WhileStmt"
    /\ Top.pc = 2
    /\ signal.kind = "BreakSignal"
    /\ loop_depth_' = loop_depth_ - 1
    /\ Finish
    /\ UNCHANGED <<call_vars, envs, functions, environment_, function_depth_,
                   out, errors_>>
    /\ UNCHANGED front_vars

\* faulty variant: the outer handler rethrows without the decrement
WhileCatchAll_NoDecrement ==
    /\ Unwinding("execute")
    /\ Top.node.type = "WhileStmt"
    /\ ~(Top.pc = 2 /\ signal.kind \in {"ContinueSignal", "BreakSignal"})
    /\ Rethrow
    /\ UNCHANGED <<call_vars, data_vars>>
    /\ UNCHANGED front_vars

\* catch (...) { --loop_depth_; throw; } of the outer try
WhileCatchAll ==
    /\ Unwinding("execute")
    /\ Top.node.type = "WhileStmt"
    /\ ~(Top.pc = 2 /\ signal.kind \in {"ContinueSignal", "BreakSignal"})
    /\ loop_depth_' = loop_depth_ - 1
    /\ Rethrow
    /\ UNCHANGED <<call_vars, envs, functions, environment_, function_depth_,
                   out, errors_>>
    /\ UNCHANGED front_vars

\* faulty variant: break without the loop_depth_ check
ExecuteBreakStmt_NoCheck ==
    /\ Running("execute", "BreakStmt")
    /\ Throw(BreakSignal)
    /\ UNCHANGED <<call_vars, data_vars>>
    /\ UNCHANGED front_vars

ExecuteBreakStmt ==
    /\ Running("execute", "BreakStmt")
    /\ IF loop_depth_ = 0
       THEN Throw(RuntimeError("stmt.span", "Break used outside of a loop."))
       ELSE Throw(BreakSignal)
    /\ UNCHANGED <<call_vars, data_vars>>
    /\ UNCHANGED front_vars

ExecuteContinueStmt ==
    /\ Running("execute", "ContinueStmt")
    /\ IF loop_depth_ = 0
       THEN Throw(RuntimeError("stmt.span", "Continue used outside of a loop."))
       ELSE Throw(ContinueSignal)
    /\ UNCHANGED <<call_vars, data_vars>>
    /\ UNCHANGED front_vars

\* the depth check, then the optional value
ExecuteReturnStmt ==
    /\ Running("execute", "ReturnStmt")
    /\ Top.pc = 0
    /\ IF function_depth_ = 0
       THEN Throw(RuntimeError("stmt.span", "Return used outside of a function."))
       ELSE IF Top.node.value # Null
            THEN Invoke(1, Evaluate(Top.node.value))
            ELSE Throw(ReturnSignal(NilV))
    /\ UNCHANGED <<call_vars, data_vars>>
    /\ UNCHANGED front_vars

\* throw ReturnSignal{std::move(value)};
ExecuteReturnStmtThrow ==
    /\ Running("execute", "ReturnStmt")
    /\ Top.pc = 1
    /\ Throw(ReturnSignal(ret))
    /\ UNCHANGED <<call_vars, data_vars>>
    /\ UNCHANGED front_vars

ExecuteFnStmt ==
    /\ Running("execute", "FnStmt")
    /\ functions' = Append(functions,
                           [declaration |-> Top.node, closure |-> environment_])
    /\ envs' = define(envs, environment_, Top.node.name, FnV(Len(functions) + 1))
    /\ IF define_result(envs, environment_, Top.node.name)
       THEN Finish
       ELSE Throw(RuntimeError("name.span",
                "Function already declared in this scope: '" \o Top.node.name \o "'."))
    /\ UNCHANGED <<call_vars, environment_, loop_depth_, function_depth_,
                   out, errors_>>
    /\ UNCHANGED front_vars

----------------------------------------------------------------------------
(* Interpreter::execute_block.                                             *)

\* previous = environment_; environment_ = std::move(env);
ExecuteBlockEnter ==
    /\ Running("execute_block", "statements")
    /\ Top.pc = 0
    /\ stack' = [stack EXCEPT ![Len(stack)].previous = environment_,
                              ![Len(stack)].pc = 1]
    /\ environment_' = Top.env
    /\ UNCHANGED <<call_vars, mode, ret, signal, raised, envs, functions,
                   loop_depth_, function_depth_, out, errors_>>
    /\ UNCHANGED front_vars

ExecuteBlockLoop ==
    /\ Running("execute_block", "statements")
    /\ Top.pc >= 1
    /\ Top.pc <= Len(Top.node.statements)
    /\ Invoke(Top.pc + 1, Execute(Top.node.statements[Top.pc]))
    /\ UNCHANGED <<call_vars, data_vars>>
    /\ UNCHANGED front_vars

\* environment_ = previous; (normal exit)
ExecuteBlockExit ==
    /\ Running("execute_block", "statements")
    /\ Top.pc > Len(Top.node.statements)
    /\ environment_' = Top.previous
    /\ Finish
    /\ UNCHANGED <<call_vars, envs, functions, loop_depth_, function_depth_,
                   out, errors_>>
    /\ UNCHANGED front_vars

\* faulty variant: the handler rethrows without restoring the environment
ExecuteBlockCatch_NoRestore ==
    /\ Unwinding("execute_block")
    /\ Rethrow
    /\ UNCHANGED <<call_vars, data_vars>>
    /\ UNCHANGED front_vars

\* catch (...) { environment_ = previous; throw; }
ExecuteBlockCatch ==
    /\ Unwinding("execute_block")
    /\ environment_' = Top.previous
    /\ Rethrow
    /\ UNCHANGED <<call_vars, envs, functions, loop_depth_, function_depth_,
                   out, errors_>>
    /\ UNCHANGED front_vars

----------------------------------------------------------------------------
(* Interpreter::evaluate, one action per expression kind.                  *)

value_from_literal(literal) ==
    CASE literal.kind = "nil" -> NilV
      [] literal.kind = "number" -> IntV(literal.n)
      [] OTHER -> BoolV(literal.b)

EvaluateLiteralExpr ==
    /\ Running("evaluate", "LiteralExpr")
    /\ ReturnValue(value_from_literal(Top.node.value))
    /\ UNCHANGED <<call_vars, data_vars>>
    /\ UNCHANGED front_vars

EvaluateIdentifierExpr ==
    /\ Running("evaluate", "IdentifierExpr")
    /\ LET value == get(envs, environment_, Top.node.name)
       IN  IF value = nullptr
           THEN Throw(RuntimeError("name.span",
                    "Undefined identifier '" \o Top.node.name \o "'."))
           ELSE ReturnValue(value)
    /\ UNCHANGED <<call_vars, data_vars>>
    /\ UNCHANGED front_vars

EvaluateGroupingExpr ==
    /\ Running("evaluate", "GroupingExpr")
    /\ IF Top.pc = 0
       THEN Invoke(1, Evaluate(Top.node.expression))
       ELSE ReturnValue(ret)
    /\ UNCHANGED <<call_vars, data_vars>>
    /\ UNCHANGED front_vars

EvaluateUnaryExprOperand ==
    /\ Running("evaluate", "UnaryExpr")
    /\ Top.pc = 0
    /\ Invoke(1, Evaluate(Top.node.right))
    /\ UNCHANGED <<call_vars, data_vars>>
    /\ UNCHANGED front_vars

EvaluateUnaryExpr ==
    /\ Running("evaluate", "UnaryExpr")
    /\ Top.pc = 1
    /\ CASE Top.node.op = "MINUS" ->
              IF ret.kind = "number"
              THEN ReturnValue(IntV(-ret.n))
              ELSE Throw(expect_error("number", ret, "op.span", "unary minus"))
         [] Top.node.op = "BANG" ->
              IF ret.kind = "boolean"
              THEN ReturnValue(BoolV(~ret.b))
              ELSE Throw(expect_error("boolean", ret, "op.span", "logical not"))
         [] OTHER -> Throw(RuntimeError("op.span", "Unsupported unary operator."))
    /\ UNCHANGED <<call_vars, data_vars>>
    /\ UNCHANGED front_vars

IsLogical(op) == op \in {"AND_AND", "OR_OR"}
LogicalContext(op) == IF op = "AND_AND" THEN "logical and" ELSE "logical or"

\* bool left = expect_bool(evaluate(*node.left), ...): the evaluation
EvaluateLogicalLeft ==
    /\ Running("evaluate", "BinaryExpr")
    /\ IsLogical(Top.node.op)
    /\ Top.pc = 0
    /\ Invoke(1, Evaluate(Top.node.left))
    /\ UNCHANGED <<call_vars, data_vars>>
    /\ UNCHANGED front_vars

\* faulty variant: the right operand is always evaluated
ShortCircuits_Never(op, left) == FALSE

\* whether the value of the left operand decides the result
ShortCircuits(op, left) == IF op = "AND_AND" THEN ~left ELSE left

\* the type check of left, then the short circuit or the right operand
EvaluateLogicalShortCircuit ==
    /\ Running("evaluate", "BinaryExpr")
    /\ IsLogical(Top.node.op)
    /\ Top.pc = 1
    /\ IF ret.kind # "boolean"
       THEN Throw(expect_error("boolean", ret, "left.span",
                               LogicalContext(Top.node.op)))
       ELSE IF ShortCircuits(Top.node.op, ret.b)
            THEN ReturnValue(BoolV(Top.node.op = "OR_OR"))
            ELSE Invoke(2, Evaluate(Top.node.right))
    /\ UNCHANGED <<call_vars, data_vars>>
    /\ UNCHANGED front_vars

\* return expect_bool(evaluate(*node.right), ...);
EvaluateLogicalRight ==
    /\ Running("evaluate", "BinaryExpr")
    /\ IsLogical(Top.node.op)
    /\ Top.pc = 2
    /\ IF ret.kind # "boolean"
       THEN Throw(expect_error("boolean", ret, "right.span",
                               LogicalContext(Top.node.op)))
       ELSE ReturnValue(BoolV(ret.b))
    /\ UNCHANGED <<call_vars, data_vars>>
    /\ UNCHANGED front_vars

\* Value left = evaluate(*node.left);
EvaluateBinaryLeft ==
    /\ Running("evaluate", "BinaryExpr")
    /\ ~IsLogical(Top.node.op)
    /\ Top.pc = 0
    /\ Invoke(1, Evaluate(Top.node.left))
    /\ UNCHANGED <<call_vars, data_vars>>
    /\ UNCHANGED front_vars

\* Value right = evaluate(*node.right);
EvaluateBinaryRight ==
    /\ Running("evaluate", "BinaryExpr")
    /\ ~IsLogical(Top.node.op)
    /\ Top.pc = 1
    /\ InvokeWith(2, <<ret>>, Evaluate(Top.node.right))
    /\ UNCHANGED <<call_vars, data_vars>>
    /\ UNCHANGED front_vars

ArithmeticContext(op) ==
    CASE op = "PLUS" -> "addition"
      [] op = "MINUS" -> "subtraction"
      [] op = "STAR" -> "multiplication"
      [] op = "SLASH" -> "division"
      [] OTHER -> "comparison"

\* the value of a binary operator other than / on two numbers
ArithmeticValue(op, l, r) ==
    CASE op = "PLUS" -> IntV(l + r)
      [] op = "MINUS" -> IntV(l - r)
      [] op = "STAR" -> IntV(l * r)
      [] op = "GREATER" -> BoolV(l > r)
      [] op = "GREATER_EQUAL" -> BoolV(l >= r)
      [] op = "LESS" -> BoolV(l < r)
      [] OTHER -> BoolV(l <= r)

IsArithmetic(op) ==
    op \in {"PLUS", "MINUS", "STAR", "GREATER", "GREATER_EQUAL", "LESS",
            "LESS_EQUAL"}

\* expect_number(left, ...) <op> expect_number(right, ...) on two numbers
EvaluateArithmetic ==
    /\ Running("evaluate", "BinaryExpr")
    /\ IsArithmetic(Top.node.op)
    /\ Top.pc = 2
    /\ Top.vals[1].kind = "number"
    /\ ret.kind = "number"
    /\ ReturnValue(ArithmeticValue(Top.node.op, Top.vals[1].n, ret.n))
    /\ UNCHANGED <<call_vars, data_vars>>
    /\ UNCHANGED front_vars

\* the two expect_number calls of one operator are unsequenced: when an
\* operand is not a number, the error is that of either such operand
EvaluateArithmeticError ==
    /\ Running("evaluate", "BinaryExpr")
    /\ IsArithmetic(Top.node.op)
    /\ Top.pc = 2
    /\ \E operand \in {Top.vals[1], ret} :
          /\ operand.kind # "number"
          /\ Throw(expect_error("number", operand, "op.span",
                                ArithmeticContext(Top.node.op)))
    /\ UNCHANGED <<call_vars, data_vars>>
    /\ UNCHANGED front_vars

\* case TokenType::SLASH: the outcome for the operand values left and right
Divide(left, right) ==
    IF right.kind # "number"
    THEN expect_error("number", right, "op.span", "division")
    ELSE IF right.n = 0
         THEN RuntimeError("op.span", "Division by zero.")
         ELSE IF left.kind # "number"
              THEN expect_error("number", left, "op.span", "division")
              ELSE Normal(IntV(TruncDiv(left.n, right.n)))

EvaluateSlash ==
    /\ Running("evaluate", "BinaryExpr")
    /\ Top.node.op = "SLASH"
    /\ Top.pc = 2
    /\ LET outcome == Divide(Top.vals[1], ret)
       IN  IF outcome.kind = "RuntimeError"
           THEN Throw(outcome)
           ELSE ReturnValue(outcome.value)
    /\ UNCHANGED <<call_vars, data_vars>>
    /\ UNCHANGED front_vars

EvaluateEquality ==
    /\ Running("evaluate", "BinaryExpr")
    /\ Top.node.op \in {"EQUAL_EQUAL", "BANG_EQUAL"}
    /\ Top.pc = 2
    /\ ReturnValue(BoolV(values_equal(Top.vals[1], ret)
                         = (Top.node.op = "EQUAL_EQUAL")))
    /\ UNCHANGED <<call_vars, data_vars>>
    /\ UNCHANGED front_vars

\* Value value = evaluate(*node.value);
EvaluateAssignExprValue ==
    /\ Running("evaluate", "AssignExpr")
    /\ Top.pc = 0
    /\ Invoke(1, Evaluate(Top.node.value))
    /\ UNCHANGED <<call_vars, data_vars>>
    /\ UNCHANGED front_vars

\* if (!environment_->assign(name, value)) runtime_error(...); return value;
EvaluateAssignExpr ==
    /\ Running("evaluate", "AssignExpr")
    /\ Top.pc = 1
    /\ envs' = assign(envs, environment_, Top.node.name, ret)
    /\ IF assign_result(envs, environment_, Top.node.name)
       THEN ReturnValue(ret)
       ELSE Throw(RuntimeError("name.span",
                "Undefined variable '" \o Top.node.name \o "'."))
    /\ UNCHANGED <<call_vars, functions, environment_, loop_depth_,
                   function_depth_, out, errors_>>
    /\ UNCHANGED front_vars

\* return evaluate_call(node, expr.span);
EvaluateCallExpr ==
    /\ Running("evaluate", "CallExpr")
    /\ IF Top.pc = 0
       THEN Invoke(1, Frame("evaluate_call", Top.node, 0))
       ELSE ReturnValue(ret)
    /\ UNCHANGED <<call_vars, data_vars>>
    /\ UNCHANGED front_vars

----------------------------------------------------------------------------
(* Interpreter::evaluate_call.  vals holds the callee, then the values of  *)
(* the arguments evaluated so far.                                         *)

\* Value callee = evaluate(*expr.callee);
EvaluateCallCallee ==
    /\ Running("evaluate_call", "CallExpr")
    /\ Top.pc = 0
    /\ Invoke(1, Evaluate(Top.node.callee))
    /\ UNCHANGED <<call_vars, data_vars>>
    /\ UNCHANGED front_vars

\* the activation on top goes on at pc with vals
Goto(pc, vals) ==
    /\ stack' = [stack EXCEPT ![Len(stack)].pc = pc, ![Len(stack)].vals = vals]
    /\ UNCHANGED <<mode, ret, signal, raised>>

arity_error(expected, got) ==
    RuntimeError("paren_span", "Expected " \o ToString(expected)
                               \o " arguments but got " \o ToString(got) \o ".")

\* the checks between the callee and the arguments: the error, or NoSignal
CalleeCheck(callee, expr) ==
    IF callee.kind = "builtin"
    THEN IF /\ ~builtin_registry[callee.ref].variadic
            /\ Len(expr.arguments) # builtin_registry[callee.ref].arity
         THEN arity_error(builtin_registry[callee.ref].arity, Len(expr.arguments))
         ELSE NoSignal
    ELSE IF callee.kind # "function"
         THEN RuntimeError("span", "Can only call functions or builtins.")
         ELSE IF Len(expr.arguments) # Len(functions[callee.ref].declaration.params)
              THEN arity_error(Len(functions[callee.ref].declaration.params),
                               Len(expr.arguments))
              ELSE NoSignal

EvaluateCallCheck ==
    /\ Running("evaluate_call", "CallExpr")
    /\ Top.pc = 1
    /\ IF CalleeCheck(ret, Top.node) # NoSignal
       THEN Throw(CalleeCheck(ret, Top.node))
       ELSE Goto(2, <<ret>>)
    /\ UNCHANGED <<call_vars, data_vars>>
    /\ UNCHANGED front_vars

\* faulty variant: the arguments are evaluated from the last to the first
EvaluateCallArgument_RightToLeft ==
    /\ Running("evaluate_call", "CallExpr")
    /\ Top.pc = 2
    /\ Len(Top.vals) <= Len(Top.node.arguments)
    /\ Invoke(3, Evaluate(Top.node.arguments[Len(Top.node.arguments) + 1
                                             - Len(Top.vals)]))
    /\ UNCHANGED <<call_vars, data_vars>>
    /\ UNCHANGED front_vars

\* for (arg : expr.arguments) arguments.push_back(evaluate(*arg)): evaluate
EvaluateCallArgument ==
    /\ Running("evaluate_call", "CallExpr")
    /\ Top.pc = 2
    /\ Len(Top.vals) <= Len(Top.node.arguments)
    /\ Invoke(3, Evaluate(Top.node.arguments[Len(Top.vals)]))
    /\ UNCHANGED <<call_vars, data_vars>>
    /\ UNCHANGED front_vars

\* ... push_back
EvaluateCallArgumentPush ==
    /\ Running("evaluate_call", "CallExpr")
    /\ Top.pc = 3
    /\ Goto(2, Append(Top.vals, ret))
    /\ UNCHANGED <<call_vars, data_vars>>
    /\ UNCHANGED front_vars

\* return builtin->call(arguments); the registry's print writes one line
EvaluateCallBuiltin ==
    /\ Running("evaluate_call", "CallExpr")
    /\ Top.pc = 2
    /\ Len(Top.vals) > Len(Top.node.arguments)
    /\ Top.vals[1].kind = "builtin"
    /\ out' = Append(out, JoinArgs(Tail(Top.vals), 1))
    /\ ReturnValue(NilV)
    /\ UNCHANGED <<call_vars, envs, functions, environment_, loop_depth_,
                   function_depth_, errors_>>
    /\ UNCHANGED front_vars

RECURSIVE bind_params(_, _, _, _, _)
\* the loop defining the parameters in call_env: the heap after it, and the
\* index of the parameter whose define failed (0 for none)
bind_params(E, call_env, params, arguments, i) ==
    IF i > Len(params) THEN [envs |-> E, duplicate |-> 0]
    ELSE IF ~define_result(E, call_env, params[i])
         THEN [envs |-> define(E, call_env, params[i], arguments[i]),
               duplicate |-> i]
         ELSE bind_params(define(E, call_env, params[i], arguments[i]),
                          call_env, params, arguments, i + 1)

\* faulty variant: call_env is chained to the caller's environment
CallEnvParent_Caller(function) == environment_

\* the environment a new call_env is chained to
CallEnvParent(function) == function.closure

\* faulty variant: the body runs in a block scope inside call_env
EvaluateCallBind_NestedBody ==
    /\ Running("evaluate_call", "CallExpr")
    /\ Top.pc = 2
    /\ Len(Top.vals) > Len(Top.node.arguments)
    /\ Top.vals[1].kind = "function"
    /\ LET function == functions[Top.vals[1].ref]
           params == function.declaration.params
           call_env == Len(envs) + 1
           bound == bind_params(Append(envs, Environment(CallEnvParent(function))),
                                call_env, params, Tail(Top.vals), 1)
       IN  /\ envs' = Append(bound.envs, Environment(call_env))
           /\ IF bound.duplicate # 0
              THEN /\ Throw(RuntimeError("params.span",
                          "Duplicate parameter name '" \o params[bound.duplicate]
                          \o "'."))
                   /\ function_depth_' = function_depth_
              ELSE /\ function_depth_' = function_depth_ + 1
                   /\ Invoke(4, ExecuteBlockFrame(function.declaration.body.statements,
                                                  call_env + 1))
    /\ UNCHANGED <<call_vars, functions, environment_, loop_depth_, out, errors_>>
    /\ UNCHANGED front_vars

\* call_env, the parameters, ++function_depth_, then the body
EvaluateCallBind ==
    /\ Running("evaluate_call", "CallExpr")
    /\ Top.pc = 2
    /\ Len(Top.vals) > Len(Top.node.arguments)
    /\ Top.vals[1].kind = "function"
    /\ LET function == functions[Top.vals[1].ref]
           params == function.declaration.params
           call_env == Len(envs) + 1
           bound == bind_params(Append(envs, Environment(CallEnvParent(function))),
                                call_env, params, Tail(Top.vals), 1)
       IN  /\ envs' = bound.envs
           /\ IF bound.duplicate # 0
              THEN /\ Throw(RuntimeError("params.span",
                          "Duplicate parameter name '" \o params[bound.duplicate]
                          \o "'."))
                   /\ function_depth_' = function_depth_
              ELSE /\ function_depth_' = function_depth_ + 1
                   /\ Invoke(4, ExecuteBlockFrame(function.declaration.body.statements,
                                                  call_env))
    /\ UNCHANGED <<call_vars, functions, environment_, loop_depth_, out, errors_>>
    /\ UNCHANGED front_vars

\* the body has completed: --function_depth_; return nil
EvaluateCallReturn ==
    /\ Running("evaluate_call", "CallExpr")
    /\ Top.pc = 4
    /\ function_depth_' = function_depth_ - 1
    /\ ReturnValue(NilV)
    /\ UNCHANGED <<call_vars, envs, functions, environment_, loop_depth_,
                   out, errors_>>
    /\ UNCHANGED front_vars

\* faulty variant: the handler drops the value the signal carries
EvaluateCallCatchReturn_Nil ==
    /\ Unwinding("evaluate_call")
    /\ Top.pc = 4
    /\ signal.kind = "ReturnSignal"
    /\ function_depth_' = function_depth_ - 1
    /\ ReturnValue(NilV)
    /\ UNCHANGED <<call_vars, envs, functions, environment_, loop_depth_,
                   out, errors_>>
    /\ UNCHANGED front_vars

\* catch (const ReturnSignal &signal) { --function_depth_; return signal.value; }
EvaluateCallCatchReturn ==
    /\ Unwinding("evaluate_call")
    /\ Top.pc = 4
    /\ signal.kind = "ReturnSignal"
    /\ function_depth_' = function_depth_ - 1
    /\ ReturnValue(signal.value)
    /\ UNCHANGED <<call_vars, envs, functions, environment_, loop_depth_,
                   out, errors_>>
    /\ UNCHANGED front_vars

\* catch (...) { --function_depth_; throw; }
EvaluateCallCatchAll ==
    /\ Unwinding("evaluate_call")
    /\ Top.pc = 4
    /\ signal.kind # "ReturnSignal"
    /\ function_depth_' = function_depth_ - 1
    /\ Rethrow
    /\ UNCHANGED <<call_vars, envs, functions, environment_, loop_depth_,
                   out, errors_>>
    /\ UNCHANGED front_vars

\* an activation without a handler around its position: the exception
\* propagates to its caller
Unwind ==
    /\ phase = "running"
    /\ mode = "throw"
    /\ \/ Top.f = "evaluate"
       \/ Top.f = "execute" /\ Top.node.type # "WhileStmt"
       \/ Top.f = "evaluate_call" /\ Top.pc # 4
    /\ Rethrow
    /\ UNCHANGED <<call_vars, data_vars>>
    /\ UNCHANGED front_vars

----------------------------------------------------------------------------

Next ==
    \/ \E p \in 1..Len(Programs) : Interpret(p)
    \/ InterpretLoop
    \/ InterpretReturn
    \/ InterpretCatch
    \/ InterpretEscape
    \/ ExecuteExprStmt
    \/ ExecuteLetStmtInitializer
    \/ ExecuteLetStmtDefine
    \/ ExecuteBlockStmt
    \/ ExecuteBlockStmtReturn
    \/ ExecuteIfStmtCondition
    \/ ExecuteIfStmtBranch
    \/ ExecuteIfStmtReturn
    \/ ExecuteWhileStmtEnter
    \/ ExecuteWhileStmtTest
    \/ ExecuteWhileStmtAgain
    \/ WhileCatchContinue
    \/ WhileCatchBreak
    \/ WhileCatchAll
    \/ ExecuteBreakStmt
    \/ ExecuteContinueStmt
    \/ ExecuteReturnStmt
    \/ ExecuteReturnStmtThrow
    \/ ExecuteFnStmt
    \/ ExecuteBlockEnter
    \/ ExecuteBlockLoop
    \/ ExecuteBlockExit
    \/ ExecuteBlockCatch
    \/ EvaluateLiteralExpr
    \/ EvaluateIdentifierExpr
    \/ EvaluateGroupingExpr
    \/ EvaluateUnaryExprOperand
    \/ EvaluateUnaryExpr
    \/ EvaluateLogicalLeft
    \/ EvaluateLogicalShortCircuit
    \/ EvaluateLogicalRight
    \/ EvaluateBinaryLeft
    \/ EvaluateBinaryRight
    \/ EvaluateArithmetic
    \/ EvaluateArithmeticError
    \/ EvaluateSlash
    \/ EvaluateEquality
    \/ EvaluateAssignExprValue
    \/ EvaluateAssignExpr
    \/ EvaluateCallExpr
    \/ EvaluateCallCallee
    \/ EvaluateCallCheck
    \/ EvaluateCallArgument
    \/ EvaluateCallArgumentPush
    \/ EvaluateCallBuiltin
    \/ EvaluateCallBind
    \/ EvaluateCallReturn
    \/ EvaluateCallCatchReturn
    \/ EvaluateCallCatchAll
    \/ Unwind

Spec == Init /\ [][Next]_vars

----------------------------------------------------------------------------
(* Tokens and source positions (include/token.hpp).                        *)

SourcePos(line, col) == [line |-> line, col |-> col]
Span(start, end, pos) == [start |-> start, end |-> end, pos |-> pos]
Token(type, lexeme, literal, span) ==
    [type |-> type, lexeme |-> lexeme, literal |-> literal, span |-> span]

----------------------------------------------------------------------------
(* Lexer (src/src/lexer.cpp).  The source is a sequence of bytes, each a   *)
(* one-character string; offsets count from 0 as in the code.  An operator *)
(* taking a Lexer L yields the Lexer after the member function has run.    *)

Lexer(source) ==
    [source_ |-> source, tokens_ |-> <<>>, errors_ |-> <<>>, start_ |-> 0,
     current_ |-> 0, line_ |-> 1, col_ |-> 1, start_pos_ |-> SourcePos(1, 1),
     phase |-> "scanning"]

DigitChars == <<"0", "1", "2", "3", "4", "5", "6", "7", "8", "9">>
Letters ==
    {"a", "b", "c", "d", "e", "f", "g", "h", "i", "j", "k", "l", "m", "n", "o",
     "p", "q", "r", "s", "t", "u", "v", "w", "x", "y", "z", "A", "B", "C", "D",
     "E", "F", "G", "H", "I", "J", "K", "L", "M", "N", "O", "P", "Q", "R", "S",
     "T", "U", "V", "W", "X", "Y", "Z"}

is_digit(c) == \E i \in 1..Len(DigitChars) : DigitChars[i] = c
is_alpha(c) == c \in Letters \/ c = "_"
is_alnum(c) == is_alpha(c) \/ is_digit(c)

\* the '\0' peek() answers at the end of the source
NUL == "NUL"

is_at_end(L) == L.current_ >= Len(L.source_)

peek(L) == IF is_at_end(L) THEN NUL ELSE L.source_[L.current_ + 1]

\* faulty variant: a newline leaves the column as it is
advance_NoColumnReset(L) ==
    IF L.source_[L.current_ + 1] = "\n"
    THEN [L EXCEPT !.current_ = @ + 1, !.line_ = @ + 1]
    ELSE [L EXCEPT !.current_ = @ + 1, !.col_ = @ + 1]

advance(L) ==
    IF L.source_[L.current_ + 1] = "\n"
    THEN [L EXCEPT !.current_ = @ + 1, !.line_ = @ + 1, !.col_ = 1]
    ELSE [L EXCEPT !.current_ = @ + 1, !.col_ = @ + 1]

\* the bool match(expected) returns; when TRUE the Lexer has advanced
match(L, expected) == ~is_at_end(L) /\ L.source_[L.current_ + 1] = expected

\* the loops `while (<test>) advance();` of scan_token: over the rest of a
\* line comment, over digits, over identifier characters
LoopTest(L, loop) ==
    CASE loop = "comment" -> peek(L) # "\n" /\ ~is_at_end(L)
      [] loop = "digits" -> is_digit(peek(L))
      [] OTHER -> is_alnum(peek(L))

RECURSIVE advance_while(_, _)
advance_while(L, loop) ==
    IF LoopTest(L, loop) THEN advance_while(advance(L), loop) ELSE L

\* source_.substr(pos, count) as a string
RECURSIVE substr(_, _, _)
substr(source, pos, count) ==
    IF count = 0 THEN ""
    ELSE source[pos + 1] \o substr(source, pos + 1, count - 1)

INT_MAX == 2147483647

DigitValue(c) == (CHOOSE i \in 1..Len(DigitChars) : DigitChars[i] = c) - 1

\* std::stoi on the digits source[pos .. pos + count): the value with the
\* digits after acc appended, or -1 where std::stoi throws std::out_of_range
RECURSIVE stoi(_, _, _, _)
stoi(source, pos, count, acc) ==
    IF count = 0 THEN acc
    ELSE LET d == DigitValue(source[pos + 1])
         IN  IF acc > (INT_MAX - d) \div 10 THEN -1
             ELSE stoi(source, pos + 1, count - 1, 10 * acc + d)

keywords ==
    [text \in {"let", "if", "else", "while", "break", "continue", "return",
               "fn", "true", "false"} |->
        CASE text = "let" -> "LET"
          [] text = "if" -> "IF"
          [] text = "else" -> "ELSE"
          [] text = "while" -> "WHILE"
          [] text = "break" -> "BREAK"
          [] text = "continue" -> "CONTINUE"
          [] text = "return" -> "RETURN"
          [] text = "fn" -> "FN"
          [] text = "true" -> "TRUE"
          [] OTHER -> "FALSE"]

\* faulty variant: the lexeme is the first byte only
add_token_OneByte(L, type, literal) ==
    [L EXCEPT !.tokens_ =
        Append(@, Token(type, substr(L.source_, L.start_, 1), literal,
                        Span(L.start_, L.current_, L.start_pos_)))]

add_token(L, type, literal) ==
    [L EXCEPT !.tokens_ =
        Append(@, Token(type, substr(L.source_, L.start_, L.current_ - L.start_),
                        literal, Span(L.start_, L.current_, L.start_pos_)))]

\* the message Lexer::add_error and Parser::add_error format
PositionedMessage(pos, message) == [pos |-> pos, message |-> message]

\* faulty variant: a lexical error ends the scan
add_error_Fatal(L, message, pos) ==
    [L EXCEPT !.errors_ = Append(@, PositionedMessage(pos, message)),
              !.current_ = Len(L.source_)]

add_error(L, message, pos) ==
    [L EXCEPT !.errors_ = Append(@, PositionedMessage(pos, message))]

\* the token types of the bytes that are a token on their own
single_char ==
    [c \in {"(", ")", "{", "}", ";", ",", "+", "-", "*"} |->
        CASE c = "(" -> "LEFT_PAREN"
          [] c = ")" -> "RIGHT_PAREN"
          [] c = "{" -> "LEFT_BRACE"
          [] c = "}" -> "RIGHT_BRACE"
          [] c = ";" -> "SEMICOLON"
          [] c = "," -> "COMMA"
          [] c = "+" -> "PLUS"
          [] c = "-" -> "MINUS"
          [] OTHER -> "STAR"]

\* the bytes that are a token alone and another one when `=` follows
with_equal ==
    [c \in {"!", "=", "<", ">"} |->
        CASE c = "!" -> <<"BANG", "BANG_EQUAL">>
          [] c = "=" -> <<"EQUAL", "EQUAL_EQUAL">>
          [] c = "<" -> <<"LESS", "LESS_EQUAL">>
          [] OTHER -> <<"GREATER", "GREATER_EQUAL">>]

\* the bytes that are a token only in a pair
paired == [c \in {"&", "|"} |-> IF c = "&" THEN "AND_AND" ELSE "OR_OR"]

scan_number(L) ==
    LET M == advance_while(L, "digits")
        value == stoi(M.source_, M.start_, M.current_ - M.start_, 0)
    IN  IF value < 0 THEN [M EXCEPT !.phase = "threw"]
        ELSE add_token(M, "NUMBER", IntV(value))

scan_identifier_or_keyword(L) ==
    LET M == advance_while(L, "alnum")
        text == substr(M.source_, M.start_, M.current_ - M.start_)
    IN  IF text \in DOMAIN keywords
        THEN CASE keywords[text] = "TRUE" -> add_token(M, "TRUE", BoolV(TRUE))
               [] keywords[text] = "FALSE" -> add_token(M, "FALSE", BoolV(FALSE))
               [] OTHER -> add_token(M, keywords[text], NilV)
        ELSE add_token(M, "IDENTIFIER", NilV)

\* scan_token() on the Lexer L, whose start_ and start_pos_ are set
scan_token(L) ==
    LET c == L.source_[L.current_ + 1]
        M == advance(L)
    IN  CASE c \in DOMAIN single_char -> add_token(M, single_char[c], NilV)
          [] c \in DOMAIN with_equal ->
               IF match(M, "=") THEN add_token(advance(M), with_equal[c][2], NilV)
               ELSE add_token(M, with_equal[c][1], NilV)
          [] c \in DOMAIN paired ->
               IF match(M, c) THEN add_token(advance(M), paired[c], NilV)
               ELSE add_error(M, "Unexpected '" \o c \o "' without pair.",
                              M.start_pos_)
          [] c = "/" ->
               IF match(M, "/") THEN advance_while(advance(M), "comment")
               ELSE add_token(M, "SLASH", NilV)
          [] c \in {" ", "\r", "\t", "\n"} -> M
          [] is_digit(c) -> scan_number(M)
          [] is_alpha(c) -> scan_identifier_or_keyword(M)
          [] OTHER -> add_error(M, "Unexpected character.", M.start_pos_)

\* faulty variant: the EOF token lies where the last lexeme started
EOF_Token_LastStart(L) ==
    Token("EOF_", "", NilV, Span(L.start_, L.start_, L.start_pos_))

EOF_Token(L) ==
    Token("EOF_", "", NilV,
          Span(L.current_, L.current_, SourcePos(L.line_, L.col_)))

\* the loop of scan_tokens() run to its end on the Lexer L
RECURSIVE ScanAll(_)
ScanAll(L) ==
    IF L.phase # "scanning" \/ is_at_end(L) THEN L
    ELSE ScanAll(scan_token([L EXCEPT !.start_ = L.current_,
                                      !.start_pos_ = SourcePos(L.line_, L.col_)]))

\* the Lexer after scan_tokens(); the token list returned is its tokens_
scan_tokens(L) ==
    LET M == ScanAll(L)
    IN  IF M.phase # "scanning" THEN M
        ELSE [M EXCEPT !.tokens_ = Append(@, EOF_Token(M)), !.phase = "returned"]

\* The inputs of the lexer: every source of at most MaxSourceLen bytes over
\* LexAlphabet, and some longer ones.
MaxSourceLen == 3
LexAlphabet ==
    {"(", ";", "=", "!", "<", "&", "|", "/", " ", "\n", "1", "a", "_", "#"}

ShortSources == UNION {[1..n -> LexAlphabet] : n \in 0..MaxSourceLen}

LongSources == {
    \* let x=10;
    <<"l", "e", "t", " ", "x", "=", "1", "0", ";">>,
    \* true||false
    <<"t", "r", "u", "e", "|", "|", "f", "a", "l", "s", "e">>,
    \* // c<newline>fn f(){}<tab>
    <<"/", "/", " ", "c", "\n", "f", "n", " ", "f", "(", ")", "{", "}", "\t">>,
    \* while(a_1>=0)<carriage return><newline>  break;
    <<"w", "h", "i", "l", "e", "(", "a", "_", "1", ">", "=", "0", ")", "\r",
      "\n", " ", " ", "b", "r", "e", "a", "k", ";">>,
    \* if(!x)return-2*3,4+Else;continue
    <<"i", "f", "(", "!", "x", ")", "r", "e", "t", "u", "r", "n", "-", "2",
      "*", "3", ",", "4", "+", "E", "l", "s", "e", ";", "c", "o", "n", "t",
      "i", "n", "u", "e">>,
    \* 007 2147483647
    <<"0", "0", "7", " ", "2", "1", "4", "7", "4", "8", "3", "6", "4", "7">>,
    \* 1;2147483648;2
    <<"1", ";", "2", "1", "4", "7", "4", "8", "3", "6", "4", "8", ";", "2">>,
    \* @ 99999999999
    <<"@", " ", "9", "9", "9", "9", "9", "9", "9", "9", "9", "9", "9">>,
    \* #//&<newline> @x<newline>|y
    <<"#", "/", "/", "&", "\n", " ", "@", "x", "\n", "|", "y">> }

Sources == ShortSources \cup LongSources

\* Lexer lexer(source); lexer.scan_tokens(): construction and entry
ScanTokens(source) ==
    /\ lexer = NoObject
    /\ lexer' = Lexer(source)
    /\ UNCHANGED <<interpreter_vars, parser>>

\* one iteration of the loop of scan_tokens
ScanTokensLoop ==
    /\ lexer.phase = "scanning"
    /\ ~is_at_end(lexer)
    /\ lexer' = scan_token([lexer EXCEPT
                               !.start_ = lexer.current_,
                               !.start_pos_ = SourcePos(lexer.line_, lexer.col_)])
    /\ UNCHANGED <<interpreter_vars, parser>>

\* the end of the loop: the EOF token is appended and tokens_ returned
ScanTokensReturn ==
    /\ lexer.phase = "scanning"
    /\ is_at_end(lexer)
    /\ lexer' = [lexer EXCEPT !.tokens_ = Append(@, EOF_Token(lexer)),
                              !.phase = "returned"]
    /\ UNCHANGED <<interpreter_vars, parser>>

LexNext ==
    \/ \E source \in Sources : ScanTokens(source)
    \/ ScanTokensLoop
    \/ ScanTokensReturn

LexSpec == Init /\ [][LexNext]_vars

----------------------------------------------------------------------------
(* Parser (src/src/parser.cpp).  An operator taking a Parser P models the  *)
(* member function of its name run on P: it yields the Parser afterwards,  *)
(* the value returned, and whether the function ended by `throw            *)
(* ParseError{}` instead of returning.  A member whose name the Lexer has  *)
(* too carries the class name.                                             *)

Parser(tokens) ==
    [tokens_ |-> tokens, errors_ |-> <<>>, current_ |-> 0, statements |-> <<>>,
     phase |-> "parsing"]

Returns(P, value) == [parser |-> P, value |-> value, threw |-> FALSE]
ParseError(P) == [parser |-> P, value |-> Null, threw |-> TRUE]

\* F of the outcome of a call, the call being made once
Bind(outcome, F(_)) == CHOOSE result \in {F(x) : x \in {outcome}} : TRUE
\* the same when the call returns; a ParseError thrown by it propagates
Then(outcome, F(_)) ==
    CHOOSE result \in {IF x.threw THEN x ELSE F(x) : x \in {outcome}} : TRUE

Parser_peek(P) == P.tokens_[P.current_ + 1]
previous(P) == P.tokens_[P.current_]
Parser_is_at_end(P) == Parser_peek(P).type = "EOF_"

\* the Parser after advance(); the token it returns is previous() of that
Parser_advance(P) ==
    IF ~Parser_is_at_end(P) THEN [P EXCEPT !.current_ = @ + 1] ELSE P

check(P, type) == ~Parser_is_at_end(P) /\ Parser_peek(P).type = type

\* the bool match(types) returns; when TRUE the Parser has advanced
Parser_match(P, types) == \E type \in types : check(P, type)

Parser_add_error(P, token, message) ==
    [P EXCEPT !.errors_ = Append(@, PositionedMessage(token.span.pos, message))]

consume(P, type, message) ==
    IF check(P, type)
    THEN Returns(Parser_advance(P), previous(Parser_advance(P)))
    ELSE ParseError(Parser_add_error(P, Parser_peek(P), message))

\* the loop of synchronize()
RECURSIVE synchronize_loop(_)
synchronize_loop(P) ==
    IF Parser_is_at_end(P) THEN P
    ELSE IF previous(P).type = "SEMICOLON" THEN P
    ELSE IF Parser_peek(P).type \in
                {"LET", "IF", "WHILE", "BREAK", "CONTINUE", "RETURN", "FN"} THEN P
    ELSE synchronize_loop(Parser_advance(P))

\* faulty variant: without the advance() before the loop
synchronize_NoAdvance(P) ==
    IF P.current_ = 0 THEN P ELSE synchronize_loop(P)

synchronize(P) == synchronize_loop(Parser_advance(P))

span_from(start, end) == Span(start.start, end.end, start.pos)

make_expr(node, span) == [node |-> node, span |-> span]
make_stmt(node, span) == [node |-> node, span |-> span]

TextInfo(token) == [text |-> token.lexeme, span |-> token.span]
Op(token) == [type |-> token.type, span |-> token.span]

\* LiteralExpr{lit.literal} and CallExpr{callee, arguments, paren_span}
LiteralExpr(value) == [type |-> "LiteralExpr", value |-> value]
CallExpr(callee, arguments, paren_span) ==
    Call(callee, arguments) @@ [paren_span |-> paren_span]

\* The token types each binary level matches, from logic_or (level 1) over
\* logic_and, equality, comparison and term to factor (level 6).  The
\* operands of a level are parsed by the next level, those of factor by
\* unary.
BinaryLevels == <<
    {"OR_OR"},
    {"AND_AND"},
    {"EQUAL_EQUAL", "BANG_EQUAL"},
    {"GREATER", "GREATER_EQUAL", "LESS", "LESS_EQUAL"},
    {"PLUS", "MINUS"},
    {"STAR", "SLASH"} >>

RECURSIVE declaration(_), declarations(_, _), statement(_), expression(_),
          binary_loop(_, _, _), binary(_, _), unary(_), call_loop(_, _),
          arguments(_, _), parameters(_, _)

primary(P) ==
    IF Parser_match(P, {"NUMBER", "TRUE", "FALSE"})
    THEN LET lit == previous(Parser_advance(P))
         IN  Returns(Parser_advance(P), make_expr(LiteralExpr(lit.literal), lit.span))
    ELSE IF Parser_match(P, {"IDENTIFIER"})
    THEN LET name == previous(Parser_advance(P))
         IN  Returns(Parser_advance(P), make_expr(Id(TextInfo(name)), name.span))
    ELSE IF Parser_match(P, {"LEFT_PAREN"})
    THEN LET left == previous(Parser_advance(P))
         IN  Then(expression(Parser_advance(P)), LAMBDA expr :
             Then(consume(expr.parser, "RIGHT_PAREN", "Expect ')' after expression."),
                  LAMBDA right :
             Returns(right.parser,
                     make_expr(Grouping(expr.value),
                               span_from(left.span, right.value.span)))))
    ELSE ParseError(Parser_add_error(P, Parser_peek(P), "Expect expression."))

\* do { arguments.push_back(expression()); } while (match({COMMA}));
arguments(P, list) ==
    Then(expression(P), LAMBDA expr :
    IF Parser_match(expr.parser, {"COMMA"})
    THEN arguments(Parser_advance(expr.parser), Append(list, expr.value))
    ELSE Returns(expr.parser, Append(list, expr.value)))

finish_call(P, callee) ==
    LET left_paren == previous(P)
    IN  Then(IF ~check(P, "RIGHT_PAREN") THEN arguments(P, <<>>)
             ELSE Returns(P, <<>>), LAMBDA args :
        Then(consume(args.parser, "RIGHT_PAREN", "Expect ')' after arguments."),
             LAMBDA right_paren :
        Returns(right_paren.parser,
                make_expr(CallExpr(callee, args.value,
                                   span_from(left_paren.span,
                                             right_paren.value.span)),
                          span_from(callee.span, right_paren.value.span)))))

\* the loop of call(): while (match({LEFT_PAREN})) expr = finish_call(expr);
call_loop(P, expr) ==
    IF Parser_match(P, {"LEFT_PAREN"})
    THEN Then(finish_call(Parser_advance(P), expr), LAMBDA next :
         call_loop(next.parser, next.value))
    ELSE Returns(P, expr)

call(P) == Then(primary(P), LAMBDA expr : call_loop(expr.parser, expr.value))

unary(P) ==
    IF Parser_match(P, {"BANG", "MINUS"})
    THEN LET op == previous(Parser_advance(P))
         IN  Then(unary(Parser_advance(P)), LAMBDA right :
             Returns(right.parser,
                     make_expr(Unary(Op(op), right.value),
                               span_from(op.span, right.value.span))))
    ELSE call(P)

\* faulty variant: the right operand of a binary level is parsed by the
\* level itself
binary_loop_RightSameLevel(P, expr, level) ==
    IF Parser_match(P, BinaryLevels[level])
    THEN LET op == previous(Parser_advance(P))
         IN  Then(binary(Parser_advance(P), level), LAMBDA right :
             Returns(right.parser,
                     make_expr(Binary(expr, Op(op), right.value),
                               span_from(expr.span, right.value.span))))
    ELSE Returns(P, expr)

\* the loop of logic_or, logic_and, equality, comparison, term and factor
binary_loop(P, expr, level) ==
    IF Parser_match(P, BinaryLevels[level])
    THEN LET op == previous(Parser_advance(P))
         IN  Then(binary(Parser_advance(P), level + 1), LAMBDA right :
             Then(Returns(right.parser,
                          make_expr(Binary(expr, Op(op), right.value),
                                    span_from(expr.span, right.value.span))),
                  LAMBDA next :
             binary_loop(next.parser, next.value, level)))
    ELSE Returns(P, expr)

\* logic_or (level 1), logic_and, equality, comparison, term and factor
binary(P, level) ==
    IF level > Len(BinaryLevels) THEN unary(P)
    ELSE Then(binary(P, level + 1), LAMBDA expr :
         binary_loop(expr.parser, expr.value, level))

\* faulty variant: an invalid assignment target is a ParseError
assignment_Throw(P) ==
    Then(binary(P, 1), LAMBDA expr :
    IF ~Parser_match(expr.parser, {"EQUAL"}) THEN expr
    ELSE LET equals == previous(Parser_advance(expr.parser))
         IN  Then(expression(Parser_advance(expr.parser)), LAMBDA value :
             IF expr.value.node.type = "IdentifierExpr"
             THEN Returns(value.parser,
                          make_expr(Assign(expr.value.node.name, value.value),
                                    span_from(expr.value.span, value.value.span)))
             ELSE ParseError(Parser_add_error(value.parser, equals,
                                              "Invalid assignment target."))))

assignment(P) ==
    Then(binary(P, 1), LAMBDA expr :
    IF ~Parser_match(expr.parser, {"EQUAL"}) THEN expr
    ELSE LET equals == previous(Parser_advance(expr.parser))
         IN  Then(expression(Parser_advance(expr.parser)), LAMBDA value :
             IF expr.value.node.type = "IdentifierExpr"
             THEN Returns(value.parser,
                          make_expr(Assign(expr.value.node.name, value.value),
                                    span_from(expr.value.span, value.value.span)))
             ELSE Returns(Parser_add_error(value.parser, equals,
                                           "Invalid assignment target."),
                          expr.value)))

expression(P) == assignment(P)

\* while (!check(RIGHT_BRACE) && !is_at_end()) { stmt = declaration(); ... }
declarations(P, list) ==
    IF ~check(P, "RIGHT_BRACE") /\ ~Parser_is_at_end(P)
    THEN Then(declaration(P), LAMBDA stmt :
         declarations(stmt.parser,
                      IF stmt.value # Null THEN Append(list, stmt.value) ELSE list))
    ELSE Returns(P, list)

expression_statement(P) ==
    Then(expression(P), LAMBDA expr :
    Then(consume(expr.parser, "SEMICOLON", "Expect ';' after expression."),
         LAMBDA semi :
    Returns(semi.parser,
            make_stmt(ExprS(expr.value),
                      span_from(expr.value.span, semi.value.span)))))

block_statement(P, left_brace) ==
    Then(declarations(P, <<>>), LAMBDA body :
    Then(consume(body.parser, "RIGHT_BRACE", "Expect '}' after block."),
         LAMBDA right_brace :
    Returns(right_brace.parser,
            make_stmt(Block(body.value),
                      span_from(left_brace.span, right_brace.value.span)))))

return_statement(P) ==
    LET return_token == previous(P)
    IN  Then(IF ~check(P, "SEMICOLON") THEN expression(P) ELSE Returns(P, Null),
             LAMBDA value :
        Then(consume(value.parser, "SEMICOLON", "Expect ';' after return value."),
             LAMBDA semi :
        LET end_span == IF value.value # Null THEN value.value.span
                        ELSE semi.value.span
        IN  Returns(semi.parser,
                    make_stmt(Return(value.value),
                              span_from(return_token.span, end_span)))))

\* break_statement (keyword "break") and continue_statement ("continue")
jump_statement(P, keyword) ==
    LET jump_token == previous(P)
    IN  Then(consume(P, "SEMICOLON", "Expect ';' after '" \o keyword \o "'."),
             LAMBDA semi :
        Returns(semi.parser,
                make_stmt(IF keyword = "break" THEN Break ELSE Continue,
                          span_from(jump_token.span, semi.value.span))))

while_statement(P) ==
    LET while_token == previous(P)
    IN  Then(consume(P, "LEFT_PAREN", "Expect '(' after 'while'."), LAMBDA left :
        Then(expression(left.parser), LAMBDA condition :
        Then(consume(condition.parser, "RIGHT_PAREN",
                     "Expect ')' after while condition."), LAMBDA right :
        Then(statement(right.parser), LAMBDA body :
        Returns(body.parser,
                make_stmt(While(condition.value, body.value),
                          span_from(while_token.span, body.value.span)))))))

if_statement(P) ==
    LET if_token == previous(P)
    IN  Then(consume(P, "LEFT_PAREN", "Expect '(' after 'if'."), LAMBDA left :
        Then(expression(left.parser), LAMBDA condition :
        Then(consume(condition.parser, "RIGHT_PAREN",
                     "Expect ')' after if condition."), LAMBDA right :
        Then(statement(right.parser), LAMBDA then_branch :
        Then(IF Parser_match(then_branch.parser, {"ELSE"})
             THEN statement(Parser_advance(then_branch.parser))
             ELSE Returns(then_branch.parser, Null), LAMBDA else_branch :
        LET end_span == IF else_branch.value # Null THEN else_branch.value.span
                        ELSE then_branch.value.span
        IN  Returns(else_branch.parser,
                    make_stmt(If(condition.value, then_branch.value,
                                 else_branch.value),
                              span_from(if_token.span, end_span))))))))

\* do { param = consume(IDENTIFIER, ...); ... } while (match({COMMA}));
parameters(P, params) ==
    Then(consume(P, "IDENTIFIER", "Expect parameter name."), LAMBDA param :
    IF Parser_match(param.parser, {"COMMA"})
    THEN parameters(Parser_advance(param.parser),
                    Append(params, TextInfo(param.value)))
    ELSE Returns(param.parser, Append(params, TextInfo(param.value))))

fn_declaration(P) ==
    LET fn_token == previous(P)
    IN  Then(consume(P, "IDENTIFIER", "Expect function name after 'fn'."),
             LAMBDA fn_name :
        Then(consume(fn_name.parser, "LEFT_PAREN", "Expect '(' after function name."),
             LAMBDA left :
        Then(IF ~check(left.parser, "RIGHT_PAREN")
             THEN parameters(left.parser, <<>>)
             ELSE Returns(left.parser, <<>>), LAMBDA params :
        Then(consume(params.parser, "RIGHT_PAREN", "Expect ')' after parameters."),
             LAMBDA right :
        Then(consume(right.parser, "LEFT_BRACE", "Expect '{' before function body."),
             LAMBDA left_brace :
        Then(declarations(left_brace.parser, <<>>), LAMBDA body :
        Then(consume(body.parser, "RIGHT_BRACE", "Expect '}' after function body."),
             LAMBDA right_brace :
        Returns(right_brace.parser,
                make_stmt(Fn(TextInfo(fn_name.value), params.value, body.value),
                          span_from(fn_token.span, right_brace.value.span))))))))))

let_declaration(P) ==
    LET let_token == previous(P)
    IN  Then(consume(P, "IDENTIFIER", "Expect variable name after 'let'."),
             LAMBDA name :
        Then(consume(name.parser, "EQUAL", "Expect '=' after variable name."),
             LAMBDA equal :
        Then(expression(equal.parser), LAMBDA initializer :
        Then(consume(initializer.parser, "SEMICOLON",
                     "Expect ';' after variable declaration."), LAMBDA semi :
        Returns(semi.parser,
                make_stmt(Let(TextInfo(name.value), initializer.value),
                          span_from(let_token.span, semi.value.span)))))))

statement(P) ==
    IF Parser_match(P, {"IF"}) THEN if_statement(Parser_advance(P))
    ELSE IF Parser_match(P, {"WHILE"}) THEN while_statement(Parser_advance(P))
    ELSE IF Parser_match(P, {"BREAK"}) THEN jump_statement(Parser_advance(P), "break")
    ELSE IF Parser_match(P, {"CONTINUE"})
    THEN jump_statement(Parser_advance(P), "continue")
    ELSE IF Parser_match(P, {"RETURN"}) THEN return_statement(Parser_advance(P))
    ELSE IF Parser_match(P, {"LEFT_BRACE"})
    THEN block_statement(Parser_advance(P), previous(Parser_advance(P)))
    ELSE expression_statement(P)

\* faulty variant: the first ParseError ends the parse
declaration_Stop(P) ==
    Bind(IF Parser_match(P, {"FN"}) THEN fn_declaration(Parser_advance(P))
         ELSE IF Parser_match(P, {"LET"}) THEN let_declaration(Parser_advance(P))
         ELSE statement(P), LAMBDA stmt :
    IF stmt.threw
    THEN Returns([stmt.parser EXCEPT !.current_ = Len(stmt.parser.tokens_) - 1], Null)
    ELSE stmt)

declaration(P) ==
    Bind(IF Parser_match(P, {"FN"}) THEN fn_declaration(Parser_advance(P))
         ELSE IF Parser_match(P, {"LET"}) THEN let_declaration(Parser_advance(P))
         ELSE statement(P), LAMBDA stmt :
    IF stmt.threw THEN Returns(synchronize(stmt.parser), Null) ELSE stmt)

----------------------------------------------------------------------------
(* The inputs of the parser are the token sequences the lexer yields for   *)
(* the sources below.                                                      *)

\* The malformed statements of the recovery family, each with one defect and
\* ended by `;`.
MalformedStatements == <<
    \* let = 1 ;
    <<"l", "e", "t", " ", "=", " ", "1", " ", ";", " ">>,
    \* let x = ;
    <<"l", "e", "t", " ", "x", " ", "=", " ", ";", " ">>,
    \* 1 + ;
    <<"1", " ", "+", " ", ";", " ">>,
    \* foo bar ;
    <<"f", "o", "o", " ", "b", "a", "r", " ", ";", " ">>,
    \* ( 1 ;
    <<"(", " ", "1", " ", ";", " ">>,
    \* f ( 1 ;
    <<"f", " ", "(", " ", "1", " ", ";", " ">> >>

\* let g = 1 ;   and   h ( 2 ) ;
WellFormedFirst == <<"l", "e", "t", " ", "g", " ", "=", " ", "1", " ", ";", " ">>
WellFormedSecond == <<"h", " ", "(", " ", "2", " ", ")", " ", ";", " ">>

\* expressions with operators of different kinds
LadderSources == <<
    \* a = b = c ;
    <<"a", " ", "=", " ", "b", " ", "=", " ", "c", " ", ";">>,
    \* - a * b ;
    <<"-", " ", "a", " ", "*", " ", "b", " ", ";">>,
    \* ! a == b ;
    <<"!", " ", "a", " ", "=", "=", " ", "b", " ", ";">>,
    \* - f ( a ) ;
    <<"-", " ", "f", " ", "(", " ", "a", " ", ")", " ", ";">>,
    \* a + f ( b ) ( c ) ;
    <<"a", " ", "+", " ", "f", " ", "(", " ", "b", " ", ")", " ", "(", " ",
      "c", " ", ")", " ", ";">>,
    \* - - a ;
    <<"-", " ", "-", " ", "a", " ", ";">>,
    \* a = b || c ;
    <<"a", " ", "=", " ", "b", " ", "|", "|", " ", "c", " ", ";">>,
    \* ( a + b ) * c ;
    <<"(", " ", "a", " ", "+", " ", "b", " ", ")", " ", "*", " ", "c", " ",
      ";">>,
    \* ! - a ;
    <<"!", " ", "-", " ", "a", " ", ";">> >>

\* assignments to something that is not a bare identifier
InvalidTargetSources == <<
    \* 1 = 2 ;
    <<"1", " ", "=", " ", "2", " ", ";">>,
    \* f ( ) = 3 ; g ;
    <<"f", " ", "(", " ", ")", " ", "=", " ", "3", " ", ";", " ", "g", " ",
      ";">>,
    \* a + b = c ; x ;
    <<"a", " ", "+", " ", "b", " ", "=", " ", "c", " ", ";", " ", "x", " ",
      ";">>,
    \* ( a ) = 1 ;
    <<"(", " ", "a", " ", ")", " ", "=", " ", "1", " ", ";">>,
    \* 1 = 2 = 3 ;
    <<"1", " ", "=", " ", "2", " ", "=", " ", "3", " ", ";">>,
    \* let x = true = 2 ; y ;
    <<"l", "e", "t", " ", "x", " ", "=", " ", "t", "r", "u", "e", " ", "=",
      " ", "2", " ", ";", " ", "y", " ", ";">>,
    \* f ( 1 = 2 , 3 ) ;
    <<"f", " ", "(", " ", "1", " ", "=", " ", "2", " ", ",", " ", "3", " ",
      ")", " ", ";">>,
    \* - a = b ;
    <<"-", " ", "a", " ", "=", " ", "b", " ", ";">> >>

\* statements of every kind, well-formed and not
OtherSources == <<
    \* (the empty source)
    <<>>,
    \* { let ; g ; }
    <<"{", " ", "l", "e", "t", " ", ";", " ", "g", " ", ";", " ", "}">>,
    \* { let ; } g ;
    <<"{", " ", "l", "e", "t", " ", ";", " ", "}", " ", "g", " ", ";">>,
    \* if ( 1 = 2 ) g ; h ;
    <<"i", "f", " ", "(", " ", "1", " ", "=", " ", "2", " ", ")", " ", "g",
      " ", ";", " ", "h", " ", ";">>,
    \* return 1 ;
    <<"r", "e", "t", "u", "r", "n", " ", "1", " ", ";">>,
    \* return ;
    <<"r", "e", "t", "u", "r", "n", " ", ";">>,
    \* fn f ( a , b ) { return a + b ; }
    <<"f", "n", " ", "f", " ", "(", " ", "a", " ", ",", " ", "b", " ", ")",
      " ", "{", " ", "r", "e", "t", "u", "r", "n", " ", "a", " ", "+", " ",
      "b", " ", ";", " ", "}">>,
    \* while ( a < 3 ) { a = a + 1 ; if ( a == 2 ) break ; else continue ; }
    <<"w", "h", "i", "l", "e", " ", "(", " ", "a", " ", "<", " ", "3", " ",
      ")", " ", "{", " ", "a", " ", "=", " ", "a", " ", "+", " ", "1", " ",
      ";", " ", "i", "f", " ", "(", " ", "a", " ", "=", "=", " ", "2", " ",
      ")", " ", "b", "r", "e", "a", "k", " ", ";", " ", "e", "l", "s", "e",
      " ", "c", "o", "n", "t", "i", "n", "u", "e", " ", ";", " ", "}">>,
    \* let x = ( 1 + 2 ) * 3 ;
    <<"l", "e", "t", " ", "x", " ", "=", " ", "(", " ", "1", " ", "+", " ",
      "2", " ", ")", " ", "*", " ", "3", " ", ";">>,
    \* f ( 3 , true ) ;
    <<"f", " ", "(", " ", "3", " ", ",", " ", "t", "r", "u", "e", " ", ")",
      " ", ";">>,
    \* if ( x ) return f ( ) ; g ;
    <<"i", "f", " ", "(", " ", "x", " ", ")", " ", "r", "e", "t", "u", "r",
      "n", " ", "f", " ", "(", " ", ")", " ", ";", " ", "g", " ", ";">>,
    \* let x = 1 ;<newline>  x = x + 1 ;<newline><newline>print ( x ) ;
    <<"l", "e", "t", " ", "x", " ", "=", " ", "1", " ", ";", "\n", " ", " ",
      "x", " ", "=", " ", "x", " ", "+", " ", "1", " ", ";", "\n", "\n",
      "p", "r", "i", "n", "t", " ", "(", " ", "x", " ", ")", " ", ";">>,
    \* 1 +
    <<"1", " ", "+">>,
    \* fn
    <<"f", "n">>,
    \* { 1 ;
    <<"{", " ", "1", " ", ";">>,
    \* fn f ( a , ) { }
    <<"f", "n", " ", "f", " ", "(", " ", "a", " ", ",", " ", ")", " ", "{",
      " ", "}">>,
    \* fn f ( ) { let ; } 2 ;
    <<"f", "n", " ", "f", " ", "(", " ", ")", " ", "{", " ", "l", "e", "t",
      " ", ";", " ", "}", " ", "2", " ", ";">>,
    \* foo bar while ;
    <<"f", "o", "o", " ", "b", "a", "r", " ", "w", "h", "i", "l", "e", " ",
      ";">>,
    \* let x = 1 let y = 2 ;
    <<"l", "e", "t", " ", "x", " ", "=", " ", "1", " ", "l", "e", "t", " ",
      "y", " ", "=", " ", "2", " ", ";">>,
    \* ) ;
    <<")", " ", ";">>,
    \* x = ;
    <<"x", " ", "=", " ", ";">>,
    \* while ( ) 1 ; 2 ;
    <<"w", "h", "i", "l", "e", " ", "(", " ", ")", " ", "1", " ", ";", " ",
      "2", " ", ";">>,
    \* break ; continue 1 ; false ;
    <<"b", "r", "e", "a", "k", " ", ";", " ", "c", "o", "n", "t", "i", "n",
      "u", "e", " ", "1", " ", ";", " ", "f", "a", "l", "s", "e", " ", ";">>,
    \* if ( a ) else ; b ;
    <<"i", "f", " ", "(", " ", "a", " ", ")", " ", "e", "l", "s", "e", " ",
      ";", " ", "b", " ", ";">>,
    \* fn f ( { } g ;
    <<"f", "n", " ", "f", " ", "(", " ", "{", " ", "}", " ", "g", " ", ";">> >>

\* the lexemes of the binary operators
BinaryOperatorTexts == <<
    <<"|", "|">>, <<"&", "&">>, <<"=", "=">>, <<"!", "=">>, <<">">>,
    <<">", "=">>, <<"<">>, <<"<", "=">>, <<"+">>, <<"-">>, <<"*">>, <<"/">> >>

\* a op1 b op2 c ;
PrecedenceSource(i, j) ==
    <<"a", " ">> \o BinaryOperatorTexts[i] \o <<" ", "b", " ">>
        \o BinaryOperatorTexts[j] \o <<" ", "c", " ", ";">>

\* malformed; let g = 1 ; malformed; h ( 2 ) ;
RecoverySource(i, j) ==
    MalformedStatements[i] \o WellFormedFirst \o MalformedStatements[j]
        \o WellFormedSecond

ParserSources ==
    {PrecedenceSource(i, j) : i, j \in 1..Len(BinaryOperatorTexts)}
        \cup {RecoverySource(i, j) : i, j \in 1..Len(MalformedStatements)}
        \cup {LadderSources[k] : k \in 1..Len(LadderSources)}
        \cup {InvalidTargetSources[k] : k \in 1..Len(InvalidTargetSources)}
        \cup {OtherSources[k] : k \in 1..Len(OtherSources)}

\* Lexer lexer(source); tokens = lexer.scan_tokens(); Parser parser(tokens);
\* parser.parse(): the constructions and the entry of parse()
Parse(source) ==
    /\ lexer = NoObject
    /\ parser = NoObject
    /\ lexer' = scan_tokens(Lexer(source))
    /\ parser' = Parser(lexer'.tokens_)
    /\ UNCHANGED interpreter_vars

\* one iteration of the loop of parse()
ParseLoop ==
    /\ parser.phase = "parsing"
    /\ ~Parser_is_at_end(parser)
    /\ \E stmt \in {declaration(parser)} :
         parser' = [stmt.parser EXCEPT
                       !.statements = IF stmt.value # Null
                                      THEN Append(@, stmt.value) ELSE @]
    /\ UNCHANGED <<interpreter_vars, lexer>>

\* the end of the loop: statements is returned
ParseReturn ==
    /\ parser.phase = "parsing"
    /\ Parser_is_at_end(parser)
    /\ parser' = [parser EXCEPT !.phase = "returned"]
    /\ UNCHANGED <<interpreter_vars, lexer>>

ParseNext ==
    \/ \E source \in ParserSources : Parse(source)
    \/ ParseLoop
    \/ ParseReturn

ParseSpec == Init /\ [][ParseNext]_vars

\* parse() is one uninterrupted loop on one thread: an iteration that can
\* run does run, and so does the return
ParseFairSpec == ParseSpec /\ WF_vars(ParseLoop) /\ WF_vars(ParseReturn)

----------------------------------------------------------------------------
(* Properties.                                                             *)

Ended == phase \in {"returned", "threw"}
GlobalValues == envs[globals_].values

\* C1: no break, continue or return signal ever propagates out of
\* interpret() to its caller: every unwind signal is caught inside it.
C1_NoSignalLeavesInterpret == phase # "threw"

\* C2: errors() holds at most one message, that of the first runtime error
\* raised in the most recent interpret() call (none if none was raised);
\* once an error is raised in a call, the call only unwinds: no statement or
\* expression is executed any more and no second error is raised.
C2_FirstErrorOnly ==
    /\ Len(errors_) <= 1
    /\ Len(raised) <= 1
    /\ (phase = "running" /\ raised # <<>>)
          => (mode = "throw" /\ signal.kind = "RuntimeError" /\ errors_ = <<>>)
    /\ Ended => errors_ = raised

\* a second call has failed at `break;` after a first call that failed at
\* its second statement and never reached its print
C2_Witness ==
    /\ calls = 2
    /\ phase = "returned"
    /\ statements = <<Break>>
    /\ Len(errors_) = 1
    /\ errors_[1].message = "Break used outside of a loop."
    /\ "x" \in DOMAIN GlobalValues
    /\ GlobalValues["x"] = IntV(1)
    /\ out = <<>>

\* the environment of the innermost execute_block activation among the
\* first k frames that has installed its environment; the globals if none
InnermostEnv(k) ==
    LET active == {j \in 1..k : stack[j].f = "execute_block" /\ stack[j].pc >= 1}
    IN  IF active = {} THEN globals_
        ELSE stack[CHOOSE j \in active : \A i \in active : i <= j].env

\* C3: the current environment is restored on every exit path of a block or
\* call body: at every moment it is the environment of the innermost body
\* still executing (each body remembers the one current at its entry), and
\* it is the global scope whenever interpret() is not running.
C3_EnvironmentRestored ==
    /\ environment_ = InnermostEnv(Len(stack))
    /\ \A k \in 1..Len(stack) :
          (stack[k].f = "execute_block" /\ stack[k].pc >= 1)
             => stack[k].previous = InnermostEnv(k - 1)
    /\ phase # "running" => environment_ = globals_

\* a runtime error raised two blocks deep has unwound to interpret()
C3_Witness ==
    /\ calls = 1
    /\ statements = NestedErrorProgram
    /\ Unwinding("interpret")
    /\ signal.message = "Division by zero."
    /\ Len(envs) = 3
    /\ environment_ = globals_

InScopeFamily == program \in (ScopeBase + 1)..(ScopeBase + Len(ScopePrograms))

\* C4: a function body resolves free names in the environment the function
\* was declared in, as it is at the time of the call, never in the caller's:
\* every call environment is chained to the callee's closure, and
\* `let x = a; fn f() { return x; } fn g() { let x = b; return f(); } x = c;
\* print(g());` prints c.
C4_LexicalScope ==
    /\ \A k \in 1..(Len(stack) - 1) :
          (stack[k].f = "evaluate_call" /\ stack[k].pc = 4)
             => /\ stack[k + 1].f = "execute_block"
                /\ envs[stack[k + 1].env].enclosing
                      = functions[stack[k].vals[1].ref].closure
    /\ (phase = "returned" /\ calls = 1 /\ InScopeFamily)
          => /\ out = <<ToString(ScopeC(program - ScopeBase))>>
             /\ errors_ = <<>>

\* the callee saw the assigned global (2), neither its initial value (1)
\* nor the caller's local of the same name (1)
C4_Witness ==
    /\ phase = "returned"
    /\ calls = 1
    /\ InScopeFamily
    /\ ScopeA(program - ScopeBase) = 1
    /\ ScopeB(program - ScopeBase) = 1
    /\ ScopeC(program - ScopeBase) = 2
    /\ out = <<"2">>

\* a let (about to define) or fn statement whose name is bound in the
\* current scope
Redeclares ==
    /\ phase = "running"
    /\ mode = "run"
    /\ Top.f = "execute"
    /\ \/ Top.node.type = "LetStmt" /\ Top.pc = 1
       \/ Top.node.type = "FnStmt"
    /\ Top.node.name \in DOMAIN envs[environment_].values

\* C5: define never overwrites: a let or fn statement whose name is already
\* bound in the current scope raises exactly one runtime error ("...
\* already declared in this scope") and leaves every binding as it was.
C5_DefineNeverOverwrites ==
    [][Redeclares =>
          /\ envs' = envs
          /\ mode' = "throw"
          /\ signal'.kind = "RuntimeError"
          /\ signal'.message =
                (IF Top.node.type = "LetStmt" THEN "Variable" ELSE "Function")
                \o " already declared in this scope: '" \o Top.node.name \o "'."
          /\ raised' = Append(raised, format_error(signal'.span, signal'.message))]_vars

\* `let x = 1; let x = 2; print(x);` has failed and x is still 1
C5_Witness ==
    /\ phase = "returned"
    /\ statements = RedeclareProgram
    /\ Len(errors_) = 1
    /\ errors_[1].message = "Variable already declared in this scope: 'x'."
    /\ GlobalValues["x"] = IntV(1)

\* a let about to define a name that is not bound in the current scope but
\* is bound in an enclosing one
Shadows ==
    /\ Running("execute", "LetStmt")
    /\ Top.pc = 1
    /\ Top.node.name \notin DOMAIN envs[environment_].values
    /\ envs[environment_].enclosing # 0
    /\ get(envs, envs[environment_].enclosing, Top.node.name) # nullptr

\* C6: shadowing is legal and leaves the outer binding alone: a let in a
\* nested scope with the name of an outer variable raises no error, binds
\* the name in the current scope only, and after the block the outer
\* binding is visible with its value: `let x = 1; { let x = 2; print(x); }
\* print(x);` prints 2 then 1.
C6_Shadowing ==
    [][/\ Shadows =>
            /\ mode' = "run"
            /\ raised' = raised
            /\ envs'[environment_].values[Top.node.name] = ret
            /\ get(envs', environment_, Top.node.name) = ret
            /\ \A e \in 1..Len(envs) : e # environment_ => envs'[e] = envs[e]
       /\ (phase' = "returned" /\ calls' = 1 /\ statements' = ShadowProgram)
            => (out' = <<"2", "1">> /\ errors_' = <<>>)]_vars

C6_Witness ==
    /\ phase = "returned"
    /\ calls = 1
    /\ statements = ShadowProgram
    /\ out = <<"2", "1">>
    /\ errors_ = <<>>
    /\ GlobalValues["x"] = IntV(1)

UsedOutside(what, of) == RuntimeError("stmt.span", what \o " used outside of a " \o of \o ".")

\* C7: break and continue executed while loop_depth_ is zero, and return
\* executed while function_depth_ is zero, raise the "used outside of a
\* loop" / "used outside of a function" runtime error and no signal; with
\* a non-zero counter the statement raises no error: break and continue
\* raise their signal, return evaluates its value (if any) and raises the
\* return signal carrying it.  `while (true) { break; } print(1);` prints
\* 1 without error.
C7_CounterDecidesErrorOrSignal ==
    [][/\ Running("execute", "BreakStmt") =>
            /\ mode' = "throw"
            /\ signal' = (IF loop_depth_ = 0 THEN UsedOutside("Break", "loop")
                          ELSE BreakSignal)
            /\ Len(raised') = Len(raised) + (IF loop_depth_ = 0 THEN 1 ELSE 0)
       /\ Running("execute", "ContinueStmt") =>
            /\ mode' = "throw"
            /\ signal' = (IF loop_depth_ = 0 THEN UsedOutside("Continue", "loop")
                          ELSE ContinueSignal)
            /\ Len(raised') = Len(raised) + (IF loop_depth_ = 0 THEN 1 ELSE 0)
       /\ Running("execute", "ReturnStmt") =>
            IF function_depth_ = 0
            THEN /\ mode' = "throw"
                 /\ signal' = UsedOutside("Return", "function")
                 /\ Len(raised') = Len(raised) + 1
            ELSE IF Top.pc = 0 /\ Top.node.value # Null
                 THEN /\ mode' = "run"
                      /\ raised' = raised
                      /\ stack'[Len(stack')] = Evaluate(Top.node.value)
                 ELSE /\ mode' = "throw"
                      /\ signal' = ReturnSignal(IF Top.pc = 0 THEN NilV ELSE ret)
                      /\ raised' = raised
       /\ (phase' = "returned" /\ calls' = 1 /\ statements' = BreakLoopProgram)
            => (out' = <<"1">> /\ errors_' = <<>>)]_vars

\* break has ended `while (true) { break; }` and the print after it ran
C7_Witness ==
    /\ phase = "returned"
    /\ calls = 1
    /\ statements = BreakLoopProgram
    /\ out = <<"1">>
    /\ errors_ = <<>>
    /\ loop_depth_ = 0

\* the type-mismatch errors of the operands of a division
DivisionTypeErrors(left, right) ==
    {expect_error("number", operand, "op.span", "division") :
        operand \in {v \in {left, right} : v.kind # "number"}}

\* C8: for `/`, "Division by zero." is evaluated only after both operands
\* type-check: when an operand is not a number the error is the
\* type-mismatch error; "Division by zero." is raised only when both
\* operands are numbers and the right one is 0.
C8_ZeroCheckAfterTypeChecks ==
    [][(Running("evaluate", "BinaryExpr") /\ Top.node.op = "SLASH" /\ Top.pc = 2)
          => IF DivisionTypeErrors(Top.vals[1], ret) # {}
             THEN mode' = "throw" /\ signal' \in DivisionTypeErrors(Top.vals[1], ret)
             ELSE IF ret.n = 0
                  THEN mode' = "throw"
                       /\ signal' = RuntimeError("op.span", "Division by zero.")
                  ELSE mode' = "run"
                       /\ ret' = IntV(TruncDiv(Top.vals[1].n, ret.n))]_vars

InLogicalFamily ==
    program \in (LogicalBase + 1)..(LogicalBase + Len(LogicalPrograms))

\* what `let x = 0; fn t() { x = 1; return true; } print(<left> <op> <right>);
\* print(x);` must print and report, for the operands at positions l and r of
\* LogicalLefts (true, false, 1) and LogicalRights (true, false, 1, t(),
\* (1 / 0 == 1)), when && and || short-circuit
LogicalExpected(op, l, r) ==
    LET context == IF op = "AND_AND" THEN "logical and" ELSE "logical or"
        mismatch(span) ==
            [out |-> <<>>,
             errors |-> <<format_error(span,
                 "Expected boolean in " \o context \o ", got number.")>>]
        prints(value, x) == [out |-> <<value, x>>, errors |-> <<>>]
    IN  CASE l = 3 -> mismatch("left.span")
          [] l = 2 /\ op = "AND_AND" -> prints("false", "0")
          [] l = 1 /\ op = "OR_OR" -> prints("true", "0")
          [] OTHER ->
               CASE r = 1 -> prints("true", "0")
                 [] r = 2 -> prints("false", "0")
                 [] r = 3 -> mismatch("right.span")
                 [] r = 4 -> prints("true", "1")
                 [] OTHER -> [out |-> <<>>,
                              errors |-> <<format_error("op.span",
                                                        "Division by zero.")>>]

\* C9: && and || short-circuit: the left operand is evaluated first; when
\* it is false for && (true for ||) the right operand is never evaluated,
\* none of its side effects or errors occur and the result is false (true);
\* otherwise the right operand is evaluated and must be boolean.
C9_ShortCircuit ==
    (phase = "returned" /\ calls = 1 /\ InLogicalFamily)
      => LET k == program - LogicalBase
             expected == LogicalExpected(LogicalOp(k), LogicalLeftIndex(k),
                                         LogicalRightIndex(k))
         IN  out = expected.out /\ errors_ = expected.errors

\* `false && (1 / 0 == 1)` is false, without a division-by-zero error
C9_Witness ==
    /\ phase = "returned"
    /\ calls = 1
    /\ InLogicalFamily
    /\ LogicalOp(program - LogicalBase) = "AND_AND"
    /\ LogicalLeft(program - LogicalBase) = LitB(FALSE)
    /\ LogicalRightIndex(program - LogicalBase) = Len(LogicalRights)
    /\ out = <<"false", "0">>
    /\ errors_ = <<>>

InReturnFamily ==
    program \in (ReturnBase + 1)..(ReturnBase + Len(ReturnPrograms))

\* the value of f(a) for the body at position body of ReturnBodies: that of
\* the first return executed, nil when none is
ReturnExpected(body, a) ==
    CASE body = 1 -> IntV(a + 1)
      [] body = 2 -> IF a > 0 THEN IntV(a) ELSE NilV
      [] body = 3 -> NilV
      [] body = 4 -> IF a > 0 THEN IntV(a) ELSE NilV
      [] body = 5 -> IntV(a)
      [] OTHER -> NilV

\* C10: the value of a call of a user function is the value carried by the
\* first return executed in its body, from whatever depth of blocks and
\* loops (nil for a bare return), and nil when the body completes without a
\* return: a return signal in flight is inside a call that catches it, and
\* `fn f(a) { <body> } print(f(<a>));` prints that value.
C10_CallValue ==
    /\ (phase = "running" /\ mode = "throw" /\ signal.kind = "ReturnSignal")
          => \E k \in 1..Len(stack) :
                stack[k].f = "evaluate_call" /\ stack[k].pc = 4
    /\ (phase = "returned" /\ calls = 1 /\ InReturnFamily)
          => /\ out = <<value_to_string(
                          ReturnExpected(ReturnBody(program - ReturnBase),
                                         ReturnArgument(program - ReturnBase)))>>
             /\ errors_ = <<>>

\* `fn f(a) { return a + 1; } print(f(41));` has printed 42
C10_Witness ==
    /\ phase = "returned"
    /\ calls = 1
    /\ InReturnFamily
    /\ ReturnBody(program - ReturnBase) = 1
    /\ ReturnArgument(program - ReturnBase) = 41
    /\ out = <<"42">>

----------------------------------------------------------------------------
(* Properties of the lexer.                                                *)

\* line and column of the byte at offset (0-based) of source, counted from
\* the newlines before it
PositionAt(source, offset) ==
    LET newlines == {i \in 1..offset : source[i] = "\n"}
        last == IF newlines = {} THEN 0
                ELSE CHOOSE i \in newlines : \A j \in newlines : j <= i
    IN  SourcePos(1 + Cardinality(newlines), 1 + offset - last)

LexReturned == lexer.phase = "returned"

RECURSIVE SourceText(_, _, _)
SourceText(source, from, to) ==
    IF from >= to THEN "" ELSE source[from + 1] \o SourceText(source, from + 1, to)

\* the byte at offset is part of a `//` line comment
InComment(source, offset) ==
    \E k \in 0..offset :
        /\ k + 2 <= Len(source)
        /\ source[k + 1] = "/"
        /\ source[k + 2] = "/"
        /\ \A i \in k..offset : source[i + 1] # "\n"

\* C17: for a source that lexes without errors, the spans of the tokens
\* (EOF_ excluded) are non-empty, in strictly increasing order and do not
\* overlap, each lexeme is the source bytes of its span, and every byte
\* outside all spans is whitespace or part of a `//` comment.
C17_NoByteDropped ==
    (LexReturned /\ lexer.errors_ = <<>>) =>
        LET tokens == SubSeq(lexer.tokens_, 1, Len(lexer.tokens_) - 1)
            source == lexer.source_
        IN  /\ \A i \in 1..Len(tokens) :
                  /\ tokens[i].span.start < tokens[i].span.end
                  /\ tokens[i].span.end <= Len(source)
                  /\ tokens[i].lexeme =
                        SourceText(source, tokens[i].span.start, tokens[i].span.end)
            /\ \A i \in 1..(Len(tokens) - 1) :
                  tokens[i].span.end <= tokens[i + 1].span.start
            /\ \A offset \in 0..(Len(source) - 1) :
                  \/ \E i \in 1..Len(tokens) :
                        /\ tokens[i].span.start <= offset
                        /\ offset < tokens[i].span.end
                  \/ source[offset + 1] \in {" ", "\r", "\t", "\n"}
                  \/ InComment(source, offset)

\* a source with a comment, whitespace and several tokens, some of more
\* than one byte, has been scanned without errors
C17_Witness ==
    /\ LexReturned
    /\ lexer.errors_ = <<>>
    /\ Len(lexer.tokens_) > 5
    /\ \E i \in 1..Len(lexer.source_) : InComment(lexer.source_, i - 1)
    /\ \E i \in 1..Len(lexer.tokens_) : lexer.tokens_[i].lexeme = "fn"

\* the byte scan_token() starts on is a lexical error: an unrecognised
\* byte, or a `&` or `|` that the same byte does not follow
Offending(source, offset) ==
    LET c == source[offset + 1]
    IN  \/ /\ c \in {"&", "|"}
           /\ ~(offset + 2 <= Len(source) /\ source[offset + 2] = c)
        \/ /\ ~is_alnum(c)
           /\ c \notin {"(", ")", "{", "}", ";", ",", "+", "-", "*", "/", "!",
                        "=", "<", ">", "&", "|", " ", "\r", "\t", "\n"}

OffendingMessage(c) ==
    IF c \in {"&", "|"} THEN "Unexpected '" \o c \o "' without pair."
    ELSE "Unexpected character."

\* the offset of the first error of a scanned source is the column-and-line
\* position in its first message
FirstErrorOffset(L) ==
    CHOOSE offset \in 0..(Len(L.source_) - 1) :
        PositionAt(L.source_, offset) = L.errors_[1].pos

\* C18: a lexical error is not fatal to scanning: scan_token() on an
\* unrecognised byte or on a lone `&` or `|` adds exactly one message, at the
\* position of that byte, and no token, and scanning goes on at the next
\* byte; the tokens that follow are produced as if the byte were a space,
\* and the errors are in source order.
C18_ErrorsNotFatal ==
    [][/\ (lexer.phase = "scanning" /\ ~is_at_end(lexer)
              /\ Offending(lexer.source_, lexer.current_))
          => /\ lexer'.errors_ =
                   Append(lexer.errors_,
                          PositionedMessage(
                              PositionAt(lexer.source_, lexer.current_),
                              OffendingMessage(lexer.source_[lexer.current_ + 1])))
             /\ lexer'.tokens_ = lexer.tokens_
             /\ lexer'.current_ = lexer.current_ + 1
             /\ lexer'.phase = "scanning"
       /\ (lexer'.phase = "returned" /\ lexer'.errors_ # <<>>)
          => LET offset == FirstErrorOffset(lexer')
                 blanked == ScanAll(Lexer([lexer'.source_ EXCEPT ![offset + 1] = " "]))
             IN  /\ Offending(lexer'.source_, offset)
                 /\ SubSeq(lexer'.tokens_, 1, Len(lexer'.tokens_) - 1) = blanked.tokens_
                 /\ Tail(lexer'.errors_) = blanked.errors_]_vars

\* a source with an unrecognised byte and a lone `&` has been scanned: two
\* errors, and a token after the second
C18_Witness ==
    /\ LexReturned
    /\ Len(lexer.errors_) = 2
    /\ lexer.errors_[1].message = "Unexpected character."
    /\ lexer.errors_[2].message = "Unexpected '&' without pair."
    /\ Len(lexer.tokens_) = 2
    /\ lexer.tokens_[1].span.start = Len(lexer.source_) - 1

----------------------------------------------------------------------------
(* Properties of the parser.                                               *)

ParseReturned == parser.phase = "returned"

\* the expression or statement without its spans, fully parenthesised
RECURSIVE Shape(_), Shapes(_)
Shapes(list) ==
    IF list = <<>> THEN ""
    ELSE Shape(Head(list)) \o (IF Len(list) > 1 THEN " " ELSE "") \o Shapes(Tail(list))
Shape(e) ==
    IF e = Null THEN "null"
    ELSE LET n == e.node
         IN  CASE n.type = "LiteralExpr" -> value_to_string(n.value)
               [] n.type = "IdentifierExpr" -> n.name.text
               [] n.type = "GroupingExpr" -> "(group " \o Shape(n.expression) \o ")"
               [] n.type = "UnaryExpr" ->
                    "(" \o n.op.type \o " " \o Shape(n.right) \o ")"
               [] n.type = "BinaryExpr" ->
                    "(" \o Shape(n.left) \o " " \o n.op.type \o " "
                        \o Shape(n.right) \o ")"
               [] n.type = "AssignExpr" ->
                    "(" \o n.name.text \o " = " \o Shape(n.value) \o ")"
               [] n.type = "CallExpr" ->
                    "(call " \o Shape(n.callee) \o " [" \o Shapes(n.arguments) \o "])"
               [] n.type = "ExprStmt" -> Shape(n.expression) \o ";"
               [] n.type = "LetStmt" ->
                    "let " \o n.name.text \o " = " \o Shape(n.initializer) \o ";"
               [] n.type = "BlockStmt" -> "{" \o Shapes(n.statements) \o "}"
               [] n.type = "IfStmt" ->
                    "if " \o Shape(n.condition) \o " " \o Shape(n.then_branch)
                        \o " else " \o Shape(n.else_branch)
               [] n.type = "WhileStmt" ->
                    "while " \o Shape(n.condition) \o " " \o Shape(n.body)
               [] n.type = "ReturnStmt" -> "return " \o Shape(n.value) \o ";"
               [] n.type = "FnStmt" -> "fn " \o n.name.text \o " {"
                                           \o Shapes(n.body.statements) \o "}"
               [] OTHER -> n.type \o ";"

\* the message of a syntax error at the token starting at the offset of a
\* one-line source
SyntaxError(offset, message) ==
    PositionedMessage(SourcePos(1, offset + 1), message)

\* what is wrong in each of MalformedStatements: the offset of the token the
\* parser cannot accept, and the message it has for it
MalformedOffsets == <<4, 8, 4, 4, 4, 6>>
MalformedMessages == <<
    "Expect variable name after 'let'.",
    "Expect expression.",
    "Expect expression.",
    "Expect ';' after expression.",
    "Expect ')' after expression.",
    "Expect ')' after arguments." >>

\* C11: a source with two independent malformed statements, each ended by
\* `;` and each followed by a well-formed statement, gives two syntax errors,
\* one per malformed statement and in source order, and parse() returns the
\* two well-formed statements, each with the span it has in the source.
C11_RecoveryReportsEachError ==
    \A i, j \in 1..Len(MalformedStatements) :
        (ParseReturned /\ lexer.source_ = RecoverySource(i, j)) =>
            LET first == Len(MalformedStatements[i])
                second == first + Len(WellFormedFirst)
                third == second + Len(MalformedStatements[j])
            IN  /\ parser.errors_ =
                      << SyntaxError(MalformedOffsets[i], MalformedMessages[i]),
                         SyntaxError(second + MalformedOffsets[j],
                                     MalformedMessages[j]) >>
                /\ Len(parser.statements) = 2
                /\ Shapes(parser.statements) = "let g = 1; (call h [2]);"
                /\ parser.statements[1].span =
                      Span(first, second - 1, SourcePos(1, first + 1))
                /\ parser.statements[2].span =
                      Span(third, third + Len(WellFormedSecond) - 1,
                           SourcePos(1, third + 1))

C11_Witness ==
    /\ ParseReturned
    /\ lexer.source_ = RecoverySource(1, 4)
    /\ Len(parser.errors_) = 2
    /\ Len(parser.statements) = 2

\* C12: a top-level declaration or statement during whose parsing a syntax
\* error was recorded adds no statement to the list parse() returns.
C12_ErroringDeclarationAddsNothing ==
    [][(/\ parser.phase = "parsing"
        /\ parser'.phase = "parsing"
        /\ Len(parser'.errors_) > Len(parser.errors_))
            => parser'.statements = parser.statements]_vars

\* C13: in a source parsed without errors the top-level statements tile the
\* tokens before EOF: the span of the first starts with the first token, each
\* span ends with the end of a token (the `;` of a statement ended by one)
\* and the next statement starts with the token after that one, the last
\* span ends with the last token, and line and column are the first token's.
TokenEndingAt(offset) ==
    {k \in 1..Len(parser.tokens_) - 1 : parser.tokens_[k].span.end = offset}

C13_StatementSpansTileTheTokens ==
    (ParseReturned /\ parser.errors_ = <<>> /\ parser.statements # <<>>) =>
        LET n == Len(parser.statements)
            last == Len(parser.tokens_) - 1
        IN  /\ parser.statements[1].span.start = parser.tokens_[1].span.start
            /\ parser.statements[1].span.pos = parser.tokens_[1].span.pos
            /\ parser.statements[n].span.end = parser.tokens_[last].span.end
            /\ \A s \in 1..n - 1 :
                 \E k \in TokenEndingAt(parser.statements[s].span.end) :
                     /\ parser.statements[s + 1].span.start =
                            parser.tokens_[k + 1].span.start
                     /\ parser.statements[s + 1].span.pos =
                            parser.tokens_[k + 1].span.pos

\* The ladder as the claim states it: the token type of each binary operator
\* of BinaryOperatorTexts and the level it belongs to, a greater level
\* binding tighter.
BinaryOperatorTypes == <<
    "OR_OR", "AND_AND", "EQUAL_EQUAL", "BANG_EQUAL", "GREATER", "GREATER_EQUAL",
    "LESS", "LESS_EQUAL", "PLUS", "MINUS", "STAR", "SLASH" >>
LadderLevel == <<1, 2, 3, 3, 4, 4, 4, 4, 5, 5, 6, 6>>

\* the trees of LadderSources by the ladder
LadderShapes == <<
    "(a = (b = c));",
    "((MINUS a) STAR b);",
    "((BANG a) EQUAL_EQUAL b);",
    "(MINUS (call f [a]));",
    "(a PLUS (call (call f [b]) [c]));",
    "(MINUS (MINUS a));",
    "(a = (b OR_OR c));",
    "((group (a PLUS b)) STAR c);",
    "(BANG (MINUS a));" >>

\* C14: the tree of a well-formed expression follows the ladder: of two
\* binary operators in a row the second takes the middle operand only when
\* its level is higher, and the first otherwise (same level: to the left);
\* assignment groups to the right and binds loosest, unary operators bind
\* tighter than every binary one, calls tighter than unary operators.
C14_PrecedenceLadder ==
    /\ \A i, j \in 1..Len(BinaryOperatorTexts) :
         (ParseReturned /\ lexer.source_ = PrecedenceSource(i, j)) =>
            /\ parser.errors_ = <<>>
            /\ Shapes(parser.statements) =
                 IF LadderLevel[j] > LadderLevel[i]
                 THEN "(a " \o BinaryOperatorTypes[i] \o " (b "
                          \o BinaryOperatorTypes[j] \o " c));"
                 ELSE "((a " \o BinaryOperatorTypes[i] \o " b) "
                          \o BinaryOperatorTypes[j] \o " c);"
    /\ \A k \in 1..Len(LadderShapes) :
         (ParseReturned /\ lexer.source_ = LadderSources[k]) =>
            /\ parser.errors_ = <<>>
            /\ Shapes(parser.statements) = LadderShapes[k]

C14_Witness ==
    /\ ParseReturned
    /\ lexer.source_ = PrecedenceSource(10, 10)
    /\ Len(parser.statements) = 1
    /\ parser.statements[1].node.expression.node.left.node.type = "BinaryExpr"

\* For each of InvalidTargetSources: the offsets of the `=` tokens in the
\* order the assignments are completed, and the statements expected when the
\* left expression stands for the assignment.
InvalidTargetOffsets == <<
    <<2>>, <<6>>, <<6>>, <<6>>, <<6, 2>>, <<13>>, <<6>>, <<4>> >>
InvalidTargetShapes == <<
    "1;",
    "(call f []); g;",
    "(a PLUS b); x;",
    "(group a);",
    "1;",
    "let x = true; y;",
    "(call f [1 3]);",
    "(MINUS a);" >>

RECURSIVE InvalidTargetErrors(_)
InvalidTargetErrors(offsets) ==
    IF offsets = <<>> THEN <<>>
    ELSE <<SyntaxError(Head(offsets), "Invalid assignment target.")>>
             \o InvalidTargetErrors(Tail(offsets))

\* C15: an assignment to a left-hand side that is not a bare identifier, with
\* a well-formed right-hand side, records one "Invalid assignment target."
\* at its `=` and nothing else; the statement holding it is parsed to its end
\* with the left expression in the place of the assignment and is returned,
\* and so is the statement after it.
C15_InvalidTargetIsRecoverable ==
    \A k \in 1..Len(InvalidTargetShapes) :
        (ParseReturned /\ lexer.source_ = InvalidTargetSources[k]) =>
            /\ parser.errors_ = InvalidTargetErrors(InvalidTargetOffsets[k])
            /\ Shapes(parser.statements) = InvalidTargetShapes[k]

C15_Witness ==
    /\ ParseReturned
    /\ lexer.source_ = InvalidTargetSources[2]
    /\ Len(parser.errors_) = 1
    /\ Len(parser.statements) = 2

----------------------------------------------------------------------------
(* Properties of assignment and equality.                                  *)

\* the scopes from e outward, nearest first
RECURSIVE ScopeChain(_, _)
ScopeChain(E, e) ==
    IF e = 0 THEN <<>> ELSE <<e>> \o ScopeChain(E, E[e].enclosing)

\* the nearest scope of the chain from e that binds name, 0 when none does
NearestBinding(E, e, name) ==
    LET chain == ScopeChain(E, e)
        binding == {i \in 1..Len(chain) : name \in DOMAIN E[chain[i]].values}
    IN  IF binding = {} THEN 0
        ELSE chain[CHOOSE i \in binding : \A j \in binding : i <= j]

InAssignFamily == program \in (AssignBase + 1)..(AssignBase + Len(AssignPrograms))

\* what the programs of AssignPrograms must print and report
AssignExpected == <<
    [out |-> <<"2 1">>, errors |-> <<>>],
    [out |-> <<"3 3", "3">>, errors |-> <<>>],
    [out |-> <<>>,
     errors |-> <<format_error("name.span", "Undefined variable 'z'.")>>],
    [out |-> <<>>,
     errors |-> <<format_error("name.span", "Undefined variable 'v'.")>>] >>

AssignOutcome ==
    (phase = "returned" /\ calls = 1 /\ InAssignFamily) =>
        /\ out = AssignExpected[program - AssignBase].out
        /\ errors_ = AssignExpected[program - AssignBase].errors

\* C19: the step that completes an assignment expression changes one
\* binding, the one of the name in the nearest scope of the chain from the
\* current scope that binds it, to the value, and yields the value; no scope
\* gains or loses a name and every other binding keeps its value.  When no
\* scope of the chain binds the name the step raises "Undefined variable" and
\* changes no scope.  The programs of AssignPrograms print what this implies.
C19_AssignUpdatesNearestBinding ==
    [][/\ (Running("evaluate", "AssignExpr") /\ Top.pc = 1) =>
            LET name == Top.node.name
                target == NearestBinding(envs, environment_, name)
            IN  /\ DOMAIN envs' = DOMAIN envs
                /\ \A e \in DOMAIN envs :
                     /\ envs'[e].enclosing = envs[e].enclosing
                     /\ DOMAIN envs'[e].values = DOMAIN envs[e].values
                     /\ \A n \in DOMAIN envs[e].values :
                          (e # target \/ n # name) =>
                              envs'[e].values[n] = envs[e].values[n]
                /\ IF target # 0
                   THEN /\ envs'[target].values[name] = ret
                        /\ mode' = "run"
                        /\ ret' = ret
                   ELSE /\ mode' = "throw"
                        /\ signal' = RuntimeError("name.span",
                               "Undefined variable '" \o name \o "'.")
       /\ AssignOutcome']_vars

\* `let x = 1; fn f(x) { { x = 2; } return x; } print(f(0), x);` has
\* assigned to the parameter from the block inside and left the global alone
C19_Witness ==
    /\ phase = "returned"
    /\ calls = 1
    /\ program = AssignBase + 1
    /\ out = <<"2 1">>

InEqualityFamily ==
    program \in (EqualityBase + 1)..(EqualityBase + Len(EqualityPrograms))

\* equality as the claim states it
SameValue(left, right) ==
    /\ left.kind = right.kind
    /\ CASE left.kind = "nil" -> TRUE
         [] left.kind = "number" -> left.n = right.n
         [] left.kind = "boolean" -> left.b = right.b
         [] OTHER -> left.ref = right.ref

\* In the programs of EqualityPrograms two operands are equal when they are
\* the same operand, except mk(), which makes a new function each time.
EqualityOutcome ==
    (phase = "returned" /\ calls = 1 /\ InEqualityFamily) =>
        LET k == program - EqualityBase
            equal == /\ EqualityLeft(k) = EqualityRight(k)
                     /\ EqualityOperands[EqualityLeft(k)] # CallFn("mk", <<>>)
        IN  /\ errors_ = <<>>
            /\ out = <<IF equal = (EqualityOp(k) = "EQUAL_EQUAL") THEN "true"
                       ELSE "false">>

\* C20: the step that completes `==` or `!=` raises nothing for any pair of
\* operand values: it yields true for == exactly when the operands are of
\* the same kind and, by kind, both nil, the same integer, the same boolean,
\* or the same function or builtin object, and for != the negation.  Two
\* functions made from one declaration at different times are unequal.
C20_EqualityNeverRaises ==
    [][/\ (/\ Running("evaluate", "BinaryExpr")
           /\ Top.node.op \in {"EQUAL_EQUAL", "BANG_EQUAL"}
           /\ Top.pc = 2) =>
            /\ mode' = "run"
            /\ errors_' = errors_
            /\ ret' = BoolV(IF Top.node.op = "EQUAL_EQUAL"
                            THEN SameValue(Top.vals[1], ret)
                            ELSE ~SameValue(Top.vals[1], ret))
       /\ EqualityOutcome']_vars

\* `a == b`, for a and b made by two calls of mk(), has printed false
C20_Witness ==
    /\ phase = "returned"
    /\ calls = 1
    /\ InEqualityFamily
    /\ EqualityOperands[EqualityLeft(program - EqualityBase)] = Id("a")
    /\ EqualityOperands[EqualityRight(program - EqualityBase)] = Id("b")
    /\ EqualityOp(program - EqualityBase) = "EQUAL_EQUAL"
    /\ out = <<"false">>

----------------------------------------------------------------------------
(* Properties of conditions, calls and the nesting counters.               *)

InConditionFamily ==
    program \in (ConditionBase + 1)..(ConditionBase + Len(ConditionPrograms))

\* the kind of value each operand of ConditionOperands evaluates to
ConditionKinds ==
    <<"boolean", "number", "number", "nil", "function", "builtin", "boolean">>

condition_error(value, context) ==
    RuntimeError("condition.span", "Expected boolean in " \o context
                                   \o " condition, got " \o value.kind \o ".")

\* what the program of the given form must print and report for the operand
\* at position c, when only a boolean is accepted as a condition
ConditionExpected(form, c) ==
    LET context == IF form <= 2 THEN "if" ELSE "while"
        message == "Expected boolean in " \o context \o " condition, got "
                   \o ConditionKinds[c] \o "."
    IN  IF ConditionKinds[c] # "boolean"
        THEN [out |-> IF form = 4 THEN <<"1">> ELSE <<>>,
              errors |-> <<format_error("condition.span", message)>>]
        ELSE IF c = Len(ConditionOperands)
             THEN [out |-> <<"1", "3">>, errors |-> <<>>]
             ELSE [out |-> CASE form = 1 -> <<"2", "3">>
                             [] form = 4 -> <<"1", "3">>
                             [] OTHER -> <<"3">>,
                   errors |-> <<>>]

\* the step of the activation on top enters the statement s, or, s being
\* Null, returns without having executed anything
EntersOrReturns(s) ==
    IF s = Null
    THEN stack' = Caller /\ mode' = "run" /\ out' = out /\ envs' = envs
    ELSE /\ Len(stack') = Len(stack) + 1
         /\ stack'[Len(stack')] = Execute(s)
         /\ mode' = "run"

\* C21: there is no truthiness: the condition of an if statement and of every
\* iteration of a while statement must evaluate to a boolean; a value of any
\* other kind (nil, number, function, builtin) raises the runtime type error
\* and neither a branch nor the loop body is executed for that evaluation; an
\* if with a false condition and no else executes nothing.
C21_NoTruthiness ==
    [][/\ (Running("execute", "IfStmt") /\ Top.pc = 1) =>
             IF ret.kind # "boolean"
             THEN /\ mode' = "throw"
                  /\ signal' = condition_error(ret, "if")
                  /\ stack' = stack
                  /\ raised' = Append(raised, format_error(signal'.span,
                                                           signal'.message))
             ELSE EntersOrReturns(IF ret.b THEN Top.node.then_branch
                                  ELSE Top.node.else_branch)
       /\ (Running("execute", "WhileStmt") /\ Top.pc = 1) =>
             IF ret.kind # "boolean"
             THEN /\ mode' = "throw"
                  /\ signal' = condition_error(ret, "while")
                  /\ stack' = stack
                  /\ raised' = Append(raised, format_error(signal'.span,
                                                           signal'.message))
             ELSE IF ret.b THEN /\ Len(stack') = Len(stack) + 1
                                /\ stack'[Len(stack')] = Execute(Top.node.body)
                  ELSE stack' = Caller /\ mode' = "run"
       /\ (phase' = "returned" /\ calls' = 1
             /\ program' \in (ConditionBase + 1)..(ConditionBase + Len(ConditionPrograms)))
            => LET k == program' - ConditionBase
                   expected == ConditionExpected(ConditionForm(k),
                                                 ConditionOperand(k))
               IN  out' = expected.out /\ errors_' = expected.errors]_vars

\* the second evaluation of the condition of `while (c) { print(1); c = n; }`
\* yielded a function: the body ran once, the error is reported, print(3)
\* never ran
C21_Witness ==
    /\ phase = "returned"
    /\ calls = 1
    /\ InConditionFamily
    /\ ConditionForm(program - ConditionBase) = 4
    /\ ConditionOperands[ConditionOperand(program - ConditionBase)] = Id("n")
    /\ out = <<"1">>
    /\ errors_ = <<format_error("condition.span",
                     "Expected boolean in while condition, got function.")>>

\* the while statements among the activations that have incremented
\* loop_depth_, and the calls that have incremented function_depth_
LoopsEntered ==
    {k \in 1..Len(stack) :
        stack[k].f = "execute" /\ stack[k].node.type = "WhileStmt"
                               /\ stack[k].pc >= 1}
BodiesEntered ==
    {k \in 1..Len(stack) : stack[k].f = "evaluate_call" /\ stack[k].pc = 4}

\* `fn f() { let a = 1; { a(); } } while (true) { f(); }`, which fails in a
\* block of a function called in a loop
FailsInLoopAndFunction ==
    Fn("f", <<>>, <<Let("a", Lit(1)), Block(<<ExprS(CallFn("a", <<>>))>>)>>)

\* C22: the loop-nesting and function-nesting counters are balanced on every
\* exit path: each counts exactly the while statements / function calls that
\* are still executing, whether the ones that finished did so normally, by
\* break, by a return signal passing through or by a runtime error; both are
\* never negative and both are 0 whenever interpret() is over, so a break or
\* return at top level in a later interpret() call is still rejected.
C22_CountersBalanced ==
    /\ loop_depth_ = Cardinality(LoopsEntered)
    /\ function_depth_ = Cardinality(BodiesEntered)
    /\ loop_depth_ >= 0
    /\ function_depth_ >= 0
    /\ phase # "running" => (loop_depth_ = 0 /\ function_depth_ = 0)
    /\ (phase = "returned" /\ calls > 1 /\ statements = <<Break>>)
          => errors_ = <<format_error("stmt.span", "Break used outside of a loop.")>>
    /\ (phase = "returned" /\ calls > 1 /\ statements = <<Return(Null)>>)
          => errors_ = <<format_error("stmt.span",
                                      "Return used outside of a function.")>>

\* a second call, `break;`, was rejected after a first call that failed
\* inside a function called in a loop
C22_Witness ==
    /\ calls = 2
    /\ phase = "returned"
    /\ statements = <<Break>>
    /\ errors_ = <<format_error("stmt.span", "Break used outside of a loop.")>>
    /\ Len(functions) = 1
    /\ functions[1].declaration = FailsInLoopAndFunction
    /\ loop_depth_ = 0
    /\ function_depth_ = 0

InCallOrderFamily ==
    program \in (CallOrderBase + 1)..(CallOrderBase + Len(CallOrderPrograms))

\* what `<call>; print(7);` must print and report for each call of
\* CallOrderCalls, t printing its argument, g printing 0 and f its arguments
CallOrderExpected == <<
    [out |-> <<"0", "1", "2", "1 2", "7">>, errors |-> <<>>],
    [out |-> <<"0">>,
     errors |-> <<format_error("paren_span", "Expected 2 arguments but got 1.")>>],
    [out |-> <<"0">>,
     errors |-> <<format_error("paren_span", "Expected 2 arguments but got 3.")>>],
    [out |-> <<"1", "2", "1 2", "7">>, errors |-> <<>>],
    [out |-> <<"0">>,
     errors |-> <<format_error("span", "Can only call functions or builtins.")>>],
    [out |-> <<"0", "1", "2">>,
     errors |-> <<format_error("op.span", "Division by zero.")>>],
    [out |-> <<>>,
     errors |-> <<format_error("name.span", "Undefined identifier 'u'.")>>],
    [out |-> <<"1", "0", "2", "3", "2 3", "1 0", "7">>, errors |-> <<>>] >>

\* the number of arguments the callee takes: -1 for any number
Arity(callee) ==
    IF callee.kind = "function"
    THEN Len(functions[callee.ref].declaration.params)
    ELSE IF builtin_registry[callee.ref].variadic THEN -1
         ELSE builtin_registry[callee.ref].arity

\* the activation on top is evaluate_call at the given position
InCall(pc) == Running("evaluate_call", "CallExpr") /\ Top.pc = pc

\* the step calls evaluate(expr)
Evaluates(expr) ==
    /\ Len(stack') = Len(stack) + 1
    /\ stack'[Len(stack')] = Evaluate(expr)
    /\ mode' = "run"

\* C23: the steps of a call happen in a fixed order: the callee expression is
\* evaluated first; then the argument count is checked against the arity
\* (parameter count of a function, fixed arity of a builtin that is not
\* variadic) and a mismatch raises the arity error, reported at the call's
\* parenthesis pair, before any argument is evaluated; then the arguments are
\* evaluated strictly left to right; only then are the parameters bound and
\* the body or the builtin run.
C23_CallOrder ==
    [][/\ InCall(0) => (Evaluates(Top.node.callee) /\ out' = out /\ envs' = envs)
       /\ InCall(1) =>
             IF ret.kind \notin {"function", "builtin"}
             THEN /\ mode' = "throw"
                  /\ signal' = RuntimeError("span",
                                            "Can only call functions or builtins.")
                  /\ stack' = stack
             ELSE IF Arity(ret) \notin {-1, Len(Top.node.arguments)}
                  THEN /\ mode' = "throw"
                       /\ signal' = RuntimeError("paren_span",
                             "Expected " \o ToString(Arity(ret))
                             \o " arguments but got "
                             \o ToString(Len(Top.node.arguments)) \o ".")
                       /\ stack' = stack
                  ELSE /\ mode' = "run"
                       /\ Len(stack') = Len(stack)
                       /\ stack'[Len(stack')].vals = <<ret>>
       /\ (InCall(1) \/ InCall(2) \/ InCall(3)) =>
             (out' = out /\ function_depth_' = function_depth_)
                \/ (InCall(2) /\ Len(Top.vals) = Len(Top.node.arguments) + 1)
       /\ (InCall(2) /\ Len(Top.vals) <= Len(Top.node.arguments)) =>
             Evaluates(Top.node.arguments[Len(Top.vals)])
       /\ InCall(3) => /\ stack'[Len(stack')].vals = Append(Top.vals, ret)
                       /\ Len(stack') = Len(stack)
       /\ (InCall(2) /\ Len(Top.vals) = Len(Top.node.arguments) + 1
             /\ Top.vals[1].kind = "function" /\ mode' = "run") =>
             LET callee_decl == functions[Top.vals[1].ref].declaration
                 body == stack'[Len(stack')]
             IN  /\ body = ExecuteBlockFrame(callee_decl.body.statements,
                                             Len(envs) + 1)
                 /\ Len(envs') = Len(envs) + 1
                 /\ DOMAIN envs'[body.env].values
                       = {callee_decl.params[i] : i \in 1..Len(callee_decl.params)}
                 /\ \A i \in 1..Len(callee_decl.params) :
                       envs'[body.env].values[callee_decl.params[i]]
                          = Top.vals[i + 1]
                 /\ function_depth_' = function_depth_ + 1
       /\ (phase' = "returned" /\ calls' = 1
             /\ program' \in (CallOrderBase + 1)..(CallOrderBase
                                                    + Len(CallOrderPrograms)))
            => /\ out' = CallOrderExpected[program' - CallOrderBase].out
               /\ errors_' = CallOrderExpected[program' - CallOrderBase].errors]_vars

\* `g()(t(1));` evaluated its callee (g printed 0) and failed the arity check
\* without evaluating t(1)
C23_Witness ==
    /\ phase = "returned"
    /\ calls = 1
    /\ InCallOrderFamily
    /\ Len(CallOrderCalls[program - CallOrderBase].arguments) = 1
    /\ out = <<"0">>
    /\ errors_ = <<format_error("paren_span", "Expected 2 arguments but got 1.")>>


----------------------------------------------------------------------------
(* Properties of positions, resynchronisation and termination.             *)

\* C24: the line/col recorded for each token and for each lexical error is
\* the position of its first byte: line is 1 + the number of newline bytes
\* before that byte, col is 1 + the number of bytes between the last newline
\* before it (or the start of the source) and that byte; the message of an
\* error is added by the scan_token() that starts on its byte, also after
\* comments, whitespace and other error bytes.
C24_PositionOfFirstByte ==
    [][lexer' # NoObject =>
          /\ \A i \in 1..Len(lexer'.tokens_) :
                lexer'.tokens_[i].span.pos =
                    PositionAt(lexer'.source_, lexer'.tokens_[i].span.start)
          /\ SourcePos(lexer'.line_, lexer'.col_) =
                PositionAt(lexer'.source_, lexer'.current_)
          /\ (lexer # NoObject /\ lexer'.errors_ # lexer.errors_) =>
                /\ Len(lexer'.errors_) = Len(lexer.errors_) + 1
                /\ lexer'.errors_[Len(lexer'.errors_)].pos =
                      PositionAt(lexer.source_, lexer.current_)
                /\ Offending(lexer.source_, lexer.current_)]_vars

\* a source has been scanned that has an error byte before a comment, an
\* error byte and a token after whitespace on the second line, and an error
\* byte and a token on the third
C24_Witness ==
    /\ LexReturned
    /\ \E i \in 1..Len(lexer.source_) : InComment(lexer.source_, i - 1)
    /\ Len(lexer.errors_) = 3
    /\ lexer.errors_[1].pos = SourcePos(1, 1)
    /\ lexer.errors_[2].pos = SourcePos(2, 2)
    /\ lexer.errors_[3].pos = SourcePos(3, 1)
    /\ Len(lexer.tokens_) = 3
    /\ lexer.tokens_[1].span.pos = SourcePos(2, 3)
    /\ lexer.tokens_[2].span.pos = SourcePos(3, 2)
    /\ lexer.tokens_[3].span.pos = SourcePos(3, 3)


\* the token types that begin a declaration or statement
StatementStarts == {"LET", "IF", "WHILE", "BREAK", "CONTINUE", "RETURN", "FN"}

\* the iteration of parse() from the unprimed to the primed state recorded
\* one message and returned no statement: declaration() caught a ParseError
\* thrown at the token of the message and called synchronize() there
Resynchronised ==
    /\ parser # NoObject
    /\ parser.phase = "parsing"
    /\ parser'.phase = "parsing"
    /\ Len(parser'.errors_) = Len(parser.errors_) + 1
    /\ parser'.statements = parser.statements

\* the index (from 0) of the token the last message of P is about
OffendingToken(P) ==
    CHOOSE k \in 0..(Len(P.tokens_) - 1) :
        P.tokens_[k + 1].span.pos = P.errors_[Len(P.errors_)].pos

\* C25: after a syntax error synchronize() leaves the parser at the
\* end-of-stream token, or immediately after a consumed `;`, or at a token
\* that begins a declaration or statement, and it has skipped no `;` (but
\* the one it stops after) and no statement-start token of the input that
\* remained when the error was raised.
C25_SynchronizeSkipsNoBoundary ==
    [][Resynchronised =>
          LET from == OffendingToken(parser')
              to == parser'.current_
          IN  /\ \/ Parser_is_at_end(parser')
                 \/ previous(parser').type = "SEMICOLON"
                 \/ Parser_peek(parser').type \in StatementStarts
              /\ \A k \in from..(to - 1) :
                    /\ parser'.tokens_[k + 1].type \notin StatementStarts
                    /\ parser'.tokens_[k + 1].type = "SEMICOLON" => k = to - 1]_vars


----------------------------------------------------------------------------
(* Properties of loops, blocks and function bodies.                        *)

\* a while statement was entered after the body of the innermost function
\* call still executing: execution is inside a loop of that body
InLoopOfBody ==
    \E k \in LoopsEntered : \A b \in BodiesEntered : k > b

LoopControlMessage(type) ==
    IF type = "BreakStmt" THEN "Break used outside of a loop."
    ELSE "Continue used outside of a loop."

\* C26: a break or continue executed in a function body outside every loop
\* of that body is the runtime error "used outside of a loop", also when the
\* function is called from inside a loop of the caller: no break or continue
\* signal is thrown there, so none crosses the call boundary to end or
\* restart an iteration of the caller's loop.
C26_LoopSignalStaysInFunction ==
    [][(/\ phase = "running"
        /\ mode = "run"
        /\ Top.f = "execute"
        /\ Top.node.type \in {"BreakStmt", "ContinueStmt"}
        /\ BodiesEntered # {}
        /\ ~InLoopOfBody)
            => signal' = RuntimeError("stmt.span",
                                      LoopControlMessage(Top.node.type))]_vars


Parsing == parser.phase = "parsing"

\* the Parser of the current tokens with its cursor at token k (from 0)
ParserAt(k) == [parser EXCEPT !.current_ = k]

\* C27: parse() terminates for every token sequence ending with the
\* end-of-stream token, well-formed or not: every iteration of its loop moves
\* the cursor forward; from every position that is not the end-of-stream
\* token, declaration() and synchronize() consume at least one token and
\* stop at the end-of-stream token at the latest (so do the statement loops
\* of blocks and function bodies, which declaration() runs); and parse(),
\* once entered, returns.
C27_ParseTerminates ==
    /\ [][(Parsing /\ parser'.phase = "parsing")
              => parser'.current_ > parser.current_]_vars
    /\ [](Parsing =>
            \A k \in 0..(Len(parser.tokens_) - 2) :
                /\ declaration(ParserAt(k)).parser.current_ > k
                /\ declaration(ParserAt(k)).parser.current_ < Len(parser.tokens_)
                /\ synchronize(ParserAt(k)).current_ > k
                /\ synchronize(ParserAt(k)).current_ < Len(parser.tokens_))
    /\ Parsing ~> ParseReturned

\* parse() has returned from `{ 1 ;`, where the statement loop of the block
\* and then synchronize() stopped at the end-of-stream token
C27_Witness ==
    /\ ParseReturned
    /\ [k \in 1..Len(parser.tokens_) |-> parser.tokens_[k].type] =
          <<"LEFT_BRACE", "NUMBER", "SEMICOLON", "EOF_">>
    /\ parser.current_ = 3
    /\ Len(parser.errors_) = 1
    /\ parser.statements = <<>>


InBlockFamily == program \in (BlockBase + 1)..(BlockBase + Len(BlockPrograms))

\* what the programs of BlockPrograms must print and report
BlockExpected == <<
    [out |-> <<"0", "1", "2">>, errors |-> <<>>],
    [out |-> <<>>,
     errors |-> <<format_error("name.span", "Undefined identifier 'x'.")>>],
    [out |-> <<"1 2 1 false">>, errors |-> <<>>],
    [out |-> <<"6", "7">>, errors |-> <<>>] >>

\* C28: every execution of a block statement gets a fresh environment, empty
\* and chained to the current one: in a while loop whose body is a block, a
\* `let` of the block raises no redeclaration error in the second and later
\* iterations, the variable is unbound at the start of each iteration, and
\* the functions declared in different iterations capture different
\* environments, so that a change one closure makes to the block's variable
\* is not seen by the closure of another iteration.
C28_FreshBlockEnvironment ==
    [][/\ (Running("execute", "BlockStmt") /\ Top.pc = 0) =>
             /\ envs' = Append(envs, Environment(environment_))
             /\ stack'[Len(stack')] =
                    ExecuteBlockFrame(Top.node.statements, Len(envs) + 1)
       /\ (InBlockFamily /\ phase' = "returned") =>
             /\ out' = BlockExpected[program - BlockBase].out
             /\ errors_' = BlockExpected[program - BlockBase].errors
       /\ (program = BlockBase + 3 /\ phase' = "returned") =>
             /\ Len(functions') = 2
             /\ functions'[1].closure # functions'[2].closure
             /\ envs'[functions'[1].closure].values["x"] = IntV(2)
             /\ envs'[functions'[2].closure].values["x"] = IntV(1)]_vars

\* the loop that declares x and inc in its block has run twice; the closure
\* of the first iteration was called twice and the other one once
C28_Witness ==
    /\ program = BlockBase + 3
    /\ phase = "returned"
    /\ out = <<"1 2 1 false">>
    /\ errors_ = <<>>
    /\ Len(functions) = 2
    /\ functions[1].closure # functions[2].closure


InBodyScopeFamily ==
    program \in (BodyScopeBase + 1)..(BodyScopeBase + Len(BodyScopePrograms))

\* what the programs of BodyScopePrograms must print and report
BodyScopeExpected == <<
    [out |-> <<>>,
     errors |-> <<format_error("name.span",
                               "Variable already declared in this scope: 'a'.")>>],
    [out |-> <<>>,
     errors |-> <<format_error("name.span",
                               "Function already declared in this scope: 'a'.")>>],
    [out |-> <<"1", "0", "9">>, errors |-> <<>>],
    [out |-> <<"2", "0", "9">>, errors |-> <<>>],
    [out |-> <<"2", "3">>, errors |-> <<>>] >>

\* the activation of execute_block at position k of the stack runs the
\* statements of a function body for the call below it
IsBodyActivation(k) ==
    /\ k > 1
    /\ stack[k].f = "execute_block"
    /\ stack[k - 1].f = "evaluate_call"

\* C29: the top-level statements of a function body run in the scope that
\* holds the parameters, not in a nested one: the body is executed in
\* call_env itself, so a `let` or `fn` directly in the body with the name of
\* a parameter raises the "already declared in this scope" runtime error
\* when the function is called, while the same declaration in a nested block
\* of the body shadows the parameter without error.
C29_BodySharesParameterScope ==
    /\ \A k \in 1..Len(stack) :
          IsBodyActivation(k) =>
              LET callee_fn == functions[stack[k - 1].vals[1].ref]
                  param_names == callee_fn.declaration.params
              IN  /\ stack[k].node.statements = callee_fn.declaration.body.statements
                  /\ envs[stack[k].env].enclosing = callee_fn.closure
                  /\ \A i \in 1..Len(param_names) :
                        param_names[i] \in DOMAIN envs[stack[k].env].values
    /\ (InBodyScopeFamily /\ phase = "returned") =>
          /\ out = BodyScopeExpected[program - BodyScopeBase].out
          /\ errors_ = BodyScopeExpected[program - BodyScopeBase].errors

\* `fn f(a) { let a = 1; print(a); } f(0); print(9);` has ended with the
\* redeclaration error raised in the call
C29_Witness ==
    /\ program = BodyScopeBase + 1
    /\ phase = "returned"
    /\ out = <<>>
    /\ errors_ = <<format_error("name.span",
                                "Variable already declared in this scope: 'a'.")>>
    /\ envs[Len(envs)].values = [name \in {"a"} |-> IntV(0)]


----------------------------------------------------------------------------
(* Properties of number literals.                                          *)

\* the offset just past the maximal run of digits that starts at offset
RECURSIVE RunEnd(_, _)
RunEnd(source, offset) ==
    IF offset < Len(source) /\ is_digit(source[offset + 1])
    THEN RunEnd(source, offset + 1) ELSE offset

\* the base-10 value of the digits source[from .. to)
RECURSIVE RunValue(_, _, _)
RunValue(source, from, to) ==
    IF from >= to THEN 0
    ELSE 10 * RunValue(source, from, to - 1) + DigitValue(source[to])

\* C30: scanning a maximal run of digits always completes and yields exactly
\* one NUMBER token, whose payload is the base-10 value of the run; no digit
\* run, whatever its value, makes scan_tokens() end without returning its
\* token list.
C30_DigitRunYieldsNumber ==
    [][(/\ lexer.phase = "scanning"
        /\ ~is_at_end(lexer)
        /\ is_digit(lexer.source_[lexer.current_ + 1]))
            => /\ lexer'.phase = "scanning"
               /\ lexer'.current_ = RunEnd(lexer.source_, lexer.current_)
               /\ lexer'.errors_ = lexer.errors_
               /\ lexer'.tokens_ =
                     Append(lexer.tokens_,
                            Token("NUMBER",
                                  SourceText(lexer.source_, lexer.current_,
                                             lexer'.current_),
                                  IntV(RunValue(lexer.source_, lexer.current_,
                                                lexer'.current_)),
                                  Span(lexer.current_, lexer'.current_,
                                       PositionAt(lexer.source_, lexer.current_))))]_vars

====
